---- MODULE Spec2Model ----
(***************************************************************************)
(* mcp-svelte-docs: the documentation store (tables docs and search_index), *)
(* the indexer that fills it (process_docs, index_doc_content) and the      *)
(* query side (search_docs and the svelte_search_docs tool handler).        *)
(*                                                                          *)
(* Text is a sequence of one-character strings, so tokenisation, lower-     *)
(* casing, substring tests and SQL LIKE are computed character by           *)
(* character.  Numbers that the program keeps as floating point are kept    *)
(* as scaled integers: weights and section_importance in tenths,            *)
(* relevance_score and suggestion relevance in hundredths.                  *)
(***************************************************************************)
EXTENDS Integers, Sequences, FiniteSets, TLC

\* Text is a sequence of one-character strings.  W gives the text of the
\* package names, document ids and contents that the indexing operations
\* are called with.
W ==
    [s \in {"svelte", "kit", "cli", "llms", "llms-full", "llms-small",
             "svelte-errors", "error load error"} |->
        CASE s = "svelte" -> <<"s","v","e","l","t","e">>
          [] s = "kit" -> <<"k","i","t">>
          [] s = "cli" -> <<"c","l","i">>
          [] s = "llms" -> <<"l","l","m","s">>
          [] s = "llms-full" -> <<"l","l","m","s","-","f","u","l","l">>
          [] s = "llms-small" -> <<"l","l","m","s","-","s","m","a","l","l">>
          [] s = "svelte-errors" -> <<"s","v","e","l","t","e","-","e","r","r","o","r","s">>
          [] s = "error load error" -> <<"e","r","r","o","r"," ","l","o","a","d"," ","e","r","r","o","r">>]

\* The value of an absent column / an undefined JavaScript value.
NULL == "NULL"

\* ------------------------------------------------------------------------
\* Characters and JavaScript string primitives
\* ------------------------------------------------------------------------
UpperToLower ==
    [c \in {"A","B","C","D","E","F","G","H","I","J","K","L","M",
            "N","O","P","Q","R","S","T","U","V","W","X","Y","Z"} |->
        CASE c = "A" -> "a" [] c = "B" -> "b" [] c = "C" -> "c" [] c = "D" -> "d"
          [] c = "E" -> "e" [] c = "F" -> "f" [] c = "G" -> "g" [] c = "H" -> "h"
          [] c = "I" -> "i" [] c = "J" -> "j" [] c = "K" -> "k" [] c = "L" -> "l"
          [] c = "M" -> "m" [] c = "N" -> "n" [] c = "O" -> "o" [] c = "P" -> "p"
          [] c = "Q" -> "q" [] c = "R" -> "r" [] c = "S" -> "s" [] c = "T" -> "t"
          [] c = "U" -> "u" [] c = "V" -> "v" [] c = "W" -> "w" [] c = "X" -> "x"
          [] c = "Y" -> "y" [] c = "Z" -> "z"]

LowerLetters ==
    {"a","b","c","d","e","f","g","h","i","j","k","l","m",
     "n","o","p","q","r","s","t","u","v","w","x","y","z"}

Digits == {"0","1","2","3","4","5","6","7","8","9"}

\* \w of the regular expressions
WordChars == LowerLetters \cup DOMAIN UpperToLower \cup Digits \cup {"_"}

\* \s of the regular expressions
SpaceChars == {" ", "\n", "\t"}

\* every character that occurs in the modelled texts
Alphabet == WordChars \cup SpaceChars \cup {"$", "\"", "#", "-", ".", "%"}

\* \W of the regular expressions
NonWordChars == Alphabet \ WordChars

LowerChar(c) == IF c \in DOMAIN UpperToLower THEN UpperToLower[c] ELSE c

\* String.prototype.toLowerCase
toLowerCase(s) == [i \in 1..Len(s) |-> LowerChar(s[i])]

\* s has p at position i
MatchesAt(s, p, i) ==
    /\ i + Len(p) - 1 <= Len(s)
    /\ \A k \in 1..Len(p) : s[i + k - 1] = p[k]

\* String.prototype.includes
includes(s, p) == \E i \in 1..(Len(s) - Len(p) + 1) : MatchesAt(s, p, i)

\* String.prototype.startsWith
startsWith(s, p) == MatchesAt(s, p, 1)

\* String.prototype.trim, as the truthiness test of its result
trimIsNonEmpty(s) == \E i \in 1..Len(s) : s[i] \notin SpaceChars

\* String.prototype.split on a regular expression that matches runs of the
\* separator characters seps: the pieces between the runs, an empty piece
\* included when the string starts or ends with a separator.
RECURSIVE SplitFrom(_, _, _, _)
SplitFrom(s, seps, i, cur) ==
    IF i > Len(s) THEN <<cur>>
    ELSE IF s[i] \in seps
         THEN IF i > 1 /\ s[i - 1] \in seps
              THEN SplitFrom(s, seps, i + 1, cur)
              ELSE <<cur>> \o SplitFrom(s, seps, i + 1, <<>>)
         ELSE SplitFrom(s, seps, i + 1, Append(cur, s[i]))

split(s, seps) == SplitFrom(s, seps, 1, <<>>)

\* Array.prototype.join
RECURSIVE join(_, _)
join(parts, sep) ==
    IF Len(parts) = 0 THEN <<>>
    ELSE IF Len(parts) = 1 THEN parts[1]
    ELSE parts[1] \o sep \o join(Tail(parts), sep)

\* Array.from(new Set(xs)): first occurrences, in order
RECURSIVE Dedup(_)
Dedup(xs) ==
    IF Len(xs) = 0 THEN <<>>
    ELSE LET front == Dedup(SubSeq(xs, 1, Len(xs) - 1))
             x     == xs[Len(xs)]
         IN IF \E i \in 1..Len(front) : front[i] = x THEN front ELSE Append(front, x)

Range(xs) == {xs[i] : i \in 1..Len(xs)}

\* number of occurrences of x in the list xs
Count(xs, x) == Cardinality({i \in 1..Len(xs) : xs[i] = x})

\* ------------------------------------------------------------------------
\* SQLite primitives
\* ------------------------------------------------------------------------
\* text LIKE pat: % matches any run, _ any one character, letters compare
\* case-insensitively; no ESCAPE clause is given by the program.
RECURSIVE LikeFrom(_, _, _, _)
LikeFrom(pat, s, i, j) ==
    IF i > Len(pat) THEN j > Len(s)
    ELSE IF pat[i] = "%" THEN \E k \in j..(Len(s) + 1) : LikeFrom(pat, s, i + 1, k)
    ELSE IF j > Len(s) THEN FALSE
    ELSE IF pat[i] = "_" THEN LikeFrom(pat, s, i + 1, j + 1)
    ELSE LowerChar(pat[i]) = LowerChar(s[j]) /\ LikeFrom(pat, s, i + 1, j + 1)

\* LOWER(content) LIKE '%' || needle || '%'
ContentLike(content, needle) ==
    LikeFrom(<<"%">> \o needle \o <<"%">>, toLowerCase(content), 1, 1)

\* ORDER BY ... DESC over rows already in retrieval order, and
\* Array.prototype.sort((a, b) => b.k - a.k), which is stable: descending by
\* key[i], elements with equal keys keep their order.  key is the sequence of
\* the sort keys of xs.
StableSortDesc(xs, key) ==
    LET rank(i) == 1 + Cardinality({j \in 1..Len(xs) :
                                      \/ key[j] > key[i]
                                      \/ (key[j] = key[i] /\ j < i)})
    IN [p \in 1..Len(xs) |-> xs[CHOOSE i \in 1..Len(xs) : rank(i) = p]]

\* LIMIT n and Array.prototype.slice(0, n)
Take(xs, n) == SubSeq(xs, 1, IF Len(xs) < n THEN Len(xs) ELSE n)

RECURSIVE Flatten(_)
Flatten(xss) == IF Len(xss) = 0 THEN <<>> ELSE xss[1] \o Flatten(Tail(xss))

\* ------------------------------------------------------------------------
\* search/index.ts: static tables
\* ------------------------------------------------------------------------
\* weights in tenths
TERM_WEIGHTS ==
       (<<"r","u","n","e","s">> :> 15) @@ (<<"$","s","t","a","t","e">> :> 15) @@ (<<"$","d","e","r","i","v","e","d">> :> 15)
    @@ (<<"$","e","f","f","e","c","t">> :> 15) @@ (<<"$","p","r","o","p","s">> :> 15) @@ (<<"$","b","i","n","d","a","b","l","e">> :> 15)
    @@ (<<"l","i","f","e","c","y","c","l","e">> :> 13) @@ (<<"c","o","m","p","o","n","e","n","t">> :> 13) @@ (<<"s","t","o","r","e">> :> 13)
    @@ (<<"r","e","a","c","t","i","v","e">> :> 13)
    @@ (<<"s","v","e","l","t","e","k","i","t">> :> 14) @@ (<<"r","o","u","t","i","n","g">> :> 14) @@ (<<"s","e","r","v","e","r">> :> 14)
    @@ (<<"l","o","a","d">> :> 14) @@ (<<"a","c","t","i","o","n">> :> 14)
    @@ (<<"e","r","r","o","r">> :> 12) @@ (<<"w","a","r","n","i","n","g">> :> 12) @@ (<<"d","e","b","u","g">> :> 12)

\* TERM_WEIGHTS[t] || d
WeightOr(t, d) == IF t \in DOMAIN TERM_WEIGHTS THEN TERM_WEIGHTS[t] ELSE d

\* the entries in the order Object.keys enumerates them
RELATED_TERMS ==
    << [key |-> <<"s","t","a","t","e">>,     related |-> <<<<"$","s","t","a","t","e">>, <<"r","e","a","c","t","i","v","e">>, <<"s","t","o","r","e">>, <<"w","r","i","t","a","b","l","e">>>>],
       [key |-> <<"s","t","o","r","e">>,     related |-> <<<<"w","r","i","t","a","b","l","e">>, <<"r","e","a","d","a","b","l","e">>, <<"d","e","r","i","v","e","d">>, <<"s","t","a","t","e">>, <<"$","s","t","a","t","e">>>>],
       [key |-> <<"p","r","o","p","s">>,     related |-> <<<<"$","p","r","o","p","s">>, <<"c","o","m","p","o","n","e","n","t">>, <<"a","t","t","r","i","b","u","t","e","s">>>>],
       [key |-> <<"e","f","f","e","c","t">>,    related |-> <<<<"$","e","f","f","e","c","t">>, <<"l","i","f","e","c","y","c","l","e">>, <<"o","n","M","o","u","n","t">>, <<"o","n","D","e","s","t","r","o","y">>>>],
       [key |-> <<"d","e","r","i","v","e","d">>,   related |-> <<<<"$","d","e","r","i","v","e","d">>, <<"c","o","m","p","u","t","e","d">>, <<"s","t","o","r","e">>>>],
       [key |-> <<"r","o","u","t","e">>,     related |-> <<<<"r","o","u","t","i","n","g">>, <<"n","a","v","i","g","a","t","i","o","n">>, <<"p","a","r","a","m","s">>, <<"s","v","e","l","t","e","k","i","t">>>>],
       [key |-> <<"p","a","r","a","m","s">>,    related |-> <<<<"r","o","u","t","i","n","g">>, <<"d","y","n","a","m","i","c">>, <<"u","r","l">>, <<"q","u","e","r","y">>>>],
       [key |-> <<"c","o","m","p","o","n","e","n","t">>, related |-> <<<<"c","u","s","t","o","m"," ","e","l","e","m","e","n","t">>, <<"l","i","f","e","c","y","c","l","e">>, <<"s","l","o","t">>>>],
       [key |-> <<"e","r","r","o","r">>,     related |-> <<<<"d","e","b","u","g">>, <<"w","a","r","n","i","n","g">>, <<"e","x","c","e","p","t","i","o","n">>, <<"h","a","n","d","l","e">>>>],
       [key |-> <<"a","c","t","i","o","n">>,    related |-> <<<<"f","o","r","m">>, <<"s","u","b","m","i","t">>, <<"s","e","r","v","e","r">>, <<"m","u","t","a","t","e">>>>],
       [key |-> <<"b","i","n","d">>,      related |-> <<<<"b","i","n","d","i","n","g">>, <<"$","b","i","n","d","a","b","l","e">>, <<"t","w","o","-","w","a","y">>>>],
       [key |-> <<"s","l","o","t">>,      related |-> <<<<"c","o","m","p","o","n","e","n","t">>, <<"c","h","i","l","d","r","e","n">>, <<"c","o","n","t","e","n","t">>>>],
       [key |-> <<"r","u","n","e">>,      related |-> <<<<"$","s","t","a","t","e">>, <<"$","d","e","r","i","v","e","d">>, <<"$","e","f","f","e","c","t">>, <<"$","p","r","o","p","s">>>>] >>

\* ------------------------------------------------------------------------
\* search/index.ts: determine_category
\* ------------------------------------------------------------------------
\* determine_category testing the error keywords before the other groups
determine_category_ErrorFirst(content) ==
    LET lower == toLowerCase(content)
    IN  IF \E w \in {<<"e","r","r","o","r">>, <<"w","a","r","n","i","n","g">>, <<"d","e","b","u","g">>} : includes(lower, w)
        THEN "error"
        ELSE IF \E w \in {<<"r","u","n","e">>, <<"$","s","t","a","t","e">>, <<"$","e","f","f","e","c","t">>} : includes(lower, w)
        THEN "runes"
        ELSE IF \E w \in {<<"c","o","m","p","o","n","e","n","t">>, <<"l","i","f","e","c","y","c","l","e">>} : includes(lower, w)
        THEN "components"
        ELSE IF \E w \in {<<"r","o","u","t","e">>, <<"n","a","v","i","g","a","t","i","o","n">>, <<"s","v","e","l","t","e","k","i","t">>} : includes(lower, w)
        THEN "routing"
        ELSE NULL

determine_category(content) ==
    LET lower == toLowerCase(content)
    IN  IF \/ includes(lower, <<"r","u","n","e">>)
           \/ includes(lower, <<"$","s","t","a","t","e">>)
           \/ includes(lower, <<"$","e","f","f","e","c","t">>)
        THEN "runes"
        ELSE IF includes(lower, <<"c","o","m","p","o","n","e","n","t">>) \/ includes(lower, <<"l","i","f","e","c","y","c","l","e">>)
        THEN "components"
        ELSE IF \/ includes(lower, <<"r","o","u","t","e">>)
                \/ includes(lower, <<"n","a","v","i","g","a","t","i","o","n">>)
                \/ includes(lower, <<"s","v","e","l","t","e","k","i","t">>)
        THEN "routing"
        ELSE IF \/ includes(lower, <<"e","r","r","o","r">>)
                \/ includes(lower, <<"w","a","r","n","i","n","g">>)
                \/ includes(lower, <<"d","e","b","u","g">>)
        THEN "error"
        ELSE NULL

\* ------------------------------------------------------------------------
\* search/index.ts: generate_related_suggestions
\* ------------------------------------------------------------------------
\* what one entry of RELATED_TERMS offers for a query term: its associations
\* at full weight when its key is the term, at 0.8 of the weight when its
\* the sign of the difference between the double w * 0.8 (w in tenths) and
\* the decimal product: 1.5 * 0.8 is 1.2000000000000002 and 1.4 * 0.8 is
\* 1.1199999999999999; the other products of the table's weights are exact
RoundingOf08(w) == IF w = 15 THEN 1 ELSE IF w = 14 THEN -1 ELSE 0

\* EntryCandidates giving a partial match the relevance of a direct one
EntryCandidates_FullRelevance(entry, term, partial) ==
    IF \/ ~partial /\ entry.key = term
       \/ /\ partial
          /\ includes(entry.key, term) \/ includes(term, entry.key)
          /\ entry.key # term
    THEN [i \in 1..Len(entry.related) |->
            [term |-> entry.related[i],
             relevance |-> WeightOr(entry.related[i], 10) * 10,
             rounding |-> 0]]
    ELSE <<>>

\* key contains or is contained in the term and differs from it (partial
\* TRUE selects the second).  relevance is in hundredths, rounding is the
\* sign of what the double differs from it by.
EntryCandidates(entry, term, partial) ==
    IF \/ ~partial /\ entry.key = term
       \/ /\ partial
          /\ includes(entry.key, term) \/ includes(term, entry.key)
          /\ entry.key # term
    THEN [i \in 1..Len(entry.related) |->
            [term |-> entry.related[i],
             relevance |-> WeightOr(entry.related[i], 10) * (IF partial THEN 8 ELSE 10),
             rounding |-> IF partial THEN RoundingOf08(WeightOr(entry.related[i], 10)) ELSE 0]]
    ELSE <<>>

\* what the loop body offers for one query term, in order: the direct
\* associations, then, key by key, the partial ones
SuggestionCandidates(term) ==
    IF Len(term) <= 2 THEN <<>>
    ELSE Flatten([p \in 1..2 |->
            Flatten([k \in 1..Len(RELATED_TERMS) |->
                        EntryCandidates(RELATED_TERMS[k], term, p = 2)])])

\* MayEmit without the test against the query's terms
MayEmit_SeenOnly(terms, emitted, r) ==
    \A i \in 1..Len(emitted) : emitted[i].term # r

\* the guard of both push sites: !terms.includes(r) && !seen.has(r)
MayEmit(terms, emitted, r) ==
    /\ r \notin Range(terms)
    /\ \A i \in 1..Len(emitted) : emitted[i].term # r

RECURSIVE EmitAll(_, _, _)
EmitAll(terms, cands, emitted) ==
    IF Len(cands) = 0 THEN emitted
    ELSE EmitAll(terms, Tail(cands),
                 IF MayEmit(terms, emitted, cands[1].term)
                 THEN Append(emitted, cands[1])
                 ELSE emitted)

SUGGESTION_LIMIT == 5

generate_related_suggestions(terms) ==
    LET cands       == Flatten([t \in 1..Len(terms) |-> SuggestionCandidates(terms[t])])
        suggestions == EmitAll(terms, cands, <<>>)
        key         == [i \in 1..Len(suggestions) |->
                            10 * suggestions[i].relevance + suggestions[i].rounding]
    IN Take(StableSortDesc(suggestions, key), SUGGESTION_LIMIT)

\* ------------------------------------------------------------------------
\* search/index.ts: group_by_category, flatten_grouped_results
\* ------------------------------------------------------------------------
\* group_by_category putting every result into one group
group_by_category_OneGroup(results) == IF Len(results) = 0 THEN <<>> ELSE <<results>>

\* the groups in the order their keys were first inserted
group_by_category(results) ==
    LET cat(r)  == IF r.category = NULL THEN "other" ELSE r.category
        cats    == Dedup([i \in 1..Len(results) |-> cat(results[i])])
    IN [g \in 1..Len(cats) |-> SelectSeq(results, LAMBDA r : cat(r) = cats[g])]

flatten_grouped_results(grouped) ==
    LET flat == Flatten(grouped)
    IN StableSortDesc(flat, [i \in 1..Len(flat) |-> flat[i].relevance_score])

\* ------------------------------------------------------------------------
\* search/index.ts: search_docs, steps 1-3 (phrases and terms of a query)
\* ------------------------------------------------------------------------
MinOf(S) == CHOOSE x \in S : \A y \in S : x <= y

\* the matches of /"([^"]+)"/g at or after position i, each as
\* <<position of the opening quote, position of the closing quote>>
RECURSIVE QuotedMatches(_, _)
QuotedMatches(q, i) ==
    LET quotes == {j \in i..Len(q) : q[j] = "\""}
    IN  IF quotes = {} THEN <<>>
        ELSE LET a    == MinOf(quotes)
                 rest == {j \in quotes : j > a}
             IN  IF rest = {} THEN <<>>
                 ELSE LET b == MinOf(rest)
                      IN  IF b = a + 1
                          THEN QuotedMatches(q, a + 1)
                          ELSE << <<a, b>> >> \o QuotedMatches(q, b + 1)

\* exact_phrases: match[1].toLowerCase() of every match
ExactPhrases(query) ==
    LET ms == QuotedMatches(query, 1)
    IN [k \in 1..Len(ms) |-> toLowerCase(SubSeq(query, ms[k][1] + 1, ms[k][2] - 1))]

\* term_query: query.replace(quoted_regex, '')
TermQuery(query) ==
    LET ms     == QuotedMatches(query, 1)
        inside == {j \in 1..Len(query) : \E k \in 1..Len(ms) : ms[k][1] <= j /\ j <= ms[k][2]}
        keep   == [j \in 1..Len(query) |-> j \notin inside]
        RECURSIVE Kept(_)
        Kept(j) == IF j > Len(query) THEN <<>>
                   ELSE (IF keep[j] THEN <<query[j]>> ELSE <<>>) \o Kept(j + 1)
    IN Kept(1)

\* terms: lower-case, every character that is neither \w nor \s becomes a
\* blank, split on white space, keep the tokens longer than 2
QueryTerms(query) ==
    LET lower   == toLowerCase(TermQuery(query))
        blanked == [j \in 1..Len(lower) |->
                      IF lower[j] \in WordChars \cup SpaceChars THEN lower[j] ELSE " "]
    IN SelectSeq(split(blanked, SpaceChars), LAMBDA t : Len(t) > 2)

\* ------------------------------------------------------------------------
\* SQL evaluation over the two tables
\* ------------------------------------------------------------------------
\* a bound argument of a statement: a JavaScript string or a number (tenths)
TextParam(t) == [kind |-> "text", text |-> t, real |-> 0]
RealParam(w) == [kind |-> "real", text |-> <<>>, real |-> w]

\* a REAL converted to TEXT, as SQLite does when it compares a number with
\* a column of TEXT affinity: 1.5 -> '1.5', 1.0 -> '1.0'
RealText(w) ==
    LET digit(n) == CHOOSE c \in Digits :
                      c = <<"0","1","2","3","4","5","6","7","8","9">>[n + 1]
    IN <<digit(w \div 10), ".", digit(w % 10)>>

\* si.term = ?  (also one test of si.term IN (...) and of CASE si.term WHEN ?)
TermEquals(term, param) ==
    IF param.kind = "text" THEN term = param.text ELSE term = RealText(param.real)

\* the value of a TEXT in arithmetic, in tenths: its leading digits, 0 when
\* it has none
RECURSIVE LeadingNumber(_, _, _)
LeadingNumber(t, i, acc) ==
    IF i > Len(t) \/ t[i] \notin Digits THEN acc
    ELSE LeadingNumber(t, i + 1,
            acc * 10 + (CHOOSE n \in 0..9 :
                          <<"0","1","2","3","4","5","6","7","8","9">>[n + 1] = t[i]))

NumericValue(param) ==
    IF param.kind = "real" THEN param.real ELSE LeadingNumber(param.text, 1, 0) * 10

\* the order in which a scan of docs delivers its rows.  The statements give
\* no order for rows with equal scores (or none at all), so it is whatever
\* the query plan produces: here table order or its reverse.
ScanOrders == {"rowid", "reverse"}

Scan(D, order) ==
    IF order = "rowid" THEN D ELSE [i \in 1..Len(D) |-> D[Len(D) + 1 - i]]

\* LIMIT 10 of every statement of search_docs
RESULT_LIMIT == 10

\* AND d.type = ?  /  AND d.package = ?  as the statements append them
TypeFilter(d, doc_type) == doc_type = "all" \/ d.type = doc_type
PackageFilter(d, pkg) == pkg = NULL \/ d.package = pkg

\* rows.map(row => ({content, type, package, hierarchy, relevance_score,
\* category})); id is the selected d.id, kept to name the document
ToSearchResult(d, score) ==
    [id |-> d.id, content |-> d.content, type |-> d.type, package |-> d.package,
     hierarchy |-> d.hierarchy, relevance_score |-> score,
     category |-> determine_category(d.content)]

\* OrderAndLimit without its LIMIT clause
OrderAndLimit_NoLimit(ds, score) ==
    StableSortDesc([i \in 1..Len(ds) |-> ToSearchResult(ds[i], score[i])], score)

\* ORDER BY score DESC LIMIT 10 over the rows of ds with their scores
OrderAndLimit(ds, score) ==
    Take(StableSortDesc([i \in 1..Len(ds) |-> ToSearchResult(ds[i], score[i])], score),
         RESULT_LIMIT)

RECURSIVE SumValues(_)
\* the sum of the second components of a set of pairs
SumValues(S) ==
    IF S = {} THEN 0
    ELSE LET p == CHOOSE q \in S : TRUE IN p[2] + SumValues(S \ {p})

\* AND LOWER(d.content) LIKE ?  for each phrase
PhraseFilters(d, phrases) ==
    \A k \in 1..Len(phrases) : ContentLike(d.content, phrases[k])

\* ------------------------------------------------------------------------
\* search/index.ts: phrase_only_search
\* ------------------------------------------------------------------------
phrase_only_search(phrases, doc_type, pkg, D, order) ==
    LET rows == Take(SelectSeq(Scan(D, order),
                        LAMBDA d : /\ PhraseFilters(d, phrases)
                                   /\ TypeFilter(d, doc_type)
                                   /\ PackageFilter(d, pkg)),
                     RESULT_LIMIT)
        search_results == [i \in 1..Len(rows) |-> ToSearchResult(rows[i], 100)]
        words == Flatten([k \in 1..Len(phrases) |-> split(phrases[k], SpaceChars)])
    IN [results |-> flatten_grouped_results(group_by_category(search_results)),
        related_suggestions |-> generate_related_suggestions(words),
        executed |-> <<"phrase_only">>]

\* ------------------------------------------------------------------------
\* search/index.ts: search_docs, steps 5-12 (the weighted term statement)
\* ------------------------------------------------------------------------
\* args as step 7 pushes them: the terms for the IN clause first, then a
\* (term, weight) pair per term for the CASE expression
TermArgs(distinctTerms) ==
    [i \in 1..Len(distinctTerms) |-> TextParam(distinctTerms[i])]
    \o Flatten([i \in 1..Len(distinctTerms) |->
                  <<TextParam(distinctTerms[i]),
                    RealParam(WeightOr(distinctTerms[i], 10))>>])

\* The statement's placeholders in the order of its text: the CASE
\* expression stands in the SELECT list, before the WHERE clause, so the
\* first 2n arguments are bound to WHEN ? THEN ? and the next n to IN (...).
CaseParams(args, n) == SubSeq(args, 1, 2 * n)
InParams(args, n) == SubSeq(args, 2 * n + 1, 3 * n)

\* CASE si.term WHEN ? THEN ? ... ELSE 1 END, in tenths; the bare 1 when
\* there are no terms
CaseValue(term, caseParams) ==
    LET hits == {k \in 1..(Len(caseParams) \div 2) : TermEquals(term, caseParams[2 * k - 1])}
    IN IF hits = {} THEN 10 ELSE NumericValue(caseParams[2 * MinOf(hits)])

\* the rows of search_index joined to d that pass si.term IN (...)
JoinedEntries(d, SI, inParams, n) ==
    {si \in SI : /\ si.doc_id = d.id
                 /\ n > 0 => \E k \in 1..Len(inParams) : TermEquals(si.term, inParams[k])}

\* SUM(si.frequency * si.section_importance * CASE...) in hundredths
TotalScore(d, SI, args, n) ==
    SumValues({<<si, si.frequency * si.section_importance * CaseValue(si.term, CaseParams(args, n))>> :
                 si \in JoinedEntries(d, SI, InParams(args, n), n)})

TermSearch(distinctTerms, phrases, doc_type, pkg, D, SI, order) ==
    LET n    == Len(distinctTerms)
        args == TermArgs(distinctTerms)
        ds   == SelectSeq(Scan(D, order),
                    LAMBDA d : /\ JoinedEntries(d, SI, InParams(args, n), n) # {}
                               /\ PhraseFilters(d, phrases)
                               /\ TypeFilter(d, doc_type)
                               /\ PackageFilter(d, pkg))
    IN OrderAndLimit(ds, [i \in 1..Len(ds) |-> TotalScore(ds[i], SI, args, n)])

\* ------------------------------------------------------------------------
\* search/index.ts: executeDirectErrorSearch
\* ------------------------------------------------------------------------
\* WHERE si.term = 'error' AND d.type = 'error'; (doc_id, term) is the
\* primary key of search_index, so a document has at most one such row
DirectErrorEntries(d, SI) == {si \in SI : si.doc_id = d.id /\ si.term = <<"e","r","r","o","r">>}

\* executeDirectErrorSearch multiplying by the term weight of 'error'
executeDirectErrorSearch_Weighted(D, SI, order) ==
    LET ds == SelectSeq(Scan(D, order),
                  LAMBDA d : d.type = "error" /\ DirectErrorEntries(d, SI) # {})
    IN OrderAndLimit(ds, [i \in 1..Len(ds) |->
          SumValues({<<si, si.frequency * si.section_importance * TERM_WEIGHTS[<<"e","r","r","o","r">>]>> :
                       si \in DirectErrorEntries(ds[i], SI)})])

executeDirectErrorSearch(D, SI, order) ==
    LET ds == SelectSeq(Scan(D, order),
                  LAMBDA d : d.type = "error" /\ DirectErrorEntries(d, SI) # {})
    IN OrderAndLimit(ds, [i \in 1..Len(ds) |->
          SumValues({<<si, si.frequency * si.section_importance * 10>> :
                       si \in DirectErrorEntries(ds[i], SI)})])

\* ------------------------------------------------------------------------
\* search/index.ts: search_docs, step 12a (fallback content search)
\* ------------------------------------------------------------------------
\* FallbackSearchTerms without the slice(0, 3) of the other terms
FallbackSearchTerms_Unsliced(distinctTerms, phrases) ==
    LET special == SelectSeq(distinctTerms,
                      LAMBDA t : includes(t, <<"$">>) \/ t \in DOMAIN TERM_WEIGHTS)
        others  == SelectSeq(distinctTerms,
                      LAMBDA t : /\ ~includes(t, <<"$">>)
                                 /\ t \notin DOMAIN TERM_WEIGHTS
                                 /\ Len(t) > 3)
    IN    [i \in 1..Len(special) |-> [term |-> special[i], weight |-> WeightOr(special[i], 15)]]
       \o [i \in 1..Len(others) |-> [term |-> others[i], weight |-> 10]]
       \o [i \in 1..Len(phrases) |-> [term |-> phrases[i], weight |-> 20]]

\* searchTerms: [term, weight (tenths)]
FallbackSearchTerms(distinctTerms, phrases) ==
    LET special == SelectSeq(distinctTerms,
                      LAMBDA t : includes(t, <<"$">>) \/ t \in DOMAIN TERM_WEIGHTS)
        others  == Take(SelectSeq(distinctTerms,
                          LAMBDA t : /\ ~includes(t, <<"$">>)
                                     /\ t \notin DOMAIN TERM_WEIGHTS
                                     /\ Len(t) > 3),
                        3)
    IN    [i \in 1..Len(special) |-> [term |-> special[i], weight |-> WeightOr(special[i], 15)]]
       \o [i \in 1..Len(others) |-> [term |-> others[i], weight |-> 10]]
       \o [i \in 1..Len(phrases) |-> [term |-> phrases[i], weight |-> 20]]

\* the sum of CASE WHEN LOWER(d.content) LIKE ? THEN weight ELSE 0 END,
\* in hundredths
FallbackScore(d, searchTerms) ==
    SumValues({<<k, IF ContentLike(d.content, searchTerms[k].term)
                    THEN searchTerms[k].weight * 10 ELSE 0>> : k \in 1..Len(searchTerms)})

FallbackSearch(searchTerms, doc_type, pkg, D, order) ==
    LET ds == SelectSeq(Scan(D, order),
                  LAMBDA d : /\ \E k \in 1..Len(searchTerms) :
                                   ContentLike(d.content, searchTerms[k].term)
                             /\ TypeFilter(d, doc_type)
                             /\ PackageFilter(d, pkg))
    IN OrderAndLimit(ds, [i \in 1..Len(ds) |-> FallbackScore(ds[i], searchTerms)])

\* ------------------------------------------------------------------------
\* search/index.ts: search_docs
\* ------------------------------------------------------------------------
\* is the special case of step 9 taken
IsDirectErrorCase(distinctTerms, doc_type) ==
    /\ doc_type # "all"
    /\ doc_type = "error"
    /\ <<"e","r","r","o","r">> \in Range(distinctTerms)
    /\ Len(distinctTerms) = 1
    /\ distinctTerms[1] = <<"e","r","r","o","r">>

\* RunsFallback without the test that the term search found nothing
RunsFallback_AfterAnyTermSearch(search_results, distinctTerms, phrases) ==
    /\ Len(distinctTerms) > 0 \/ Len(phrases) > 0
    /\ Len(FallbackSearchTerms(distinctTerms, phrases)) > 0

\* does step 12a run the fallback statement
RunsFallback(search_results, distinctTerms, phrases) ==
    /\ Len(search_results) = 0
    /\ Len(distinctTerms) > 0 \/ Len(phrases) > 0
    /\ Len(FallbackSearchTerms(distinctTerms, phrases)) > 0

\* The result of search_docs on the store (D, SI).  executed lists the
\* statements sent to the store, in order.  related_suggestions is <<>>
\* where the program returns undefined.
search_docs(query, doc_type, pkg, D, SI, order) ==
    LET exact_phrases == ExactPhrases(query)
        terms         == QueryTerms(query)
        distinctTerms == Dedup(terms)
    IN  IF Len(terms) = 0 /\ Len(exact_phrases) > 0
        THEN phrase_only_search(exact_phrases, doc_type, pkg, D, order)
        ELSE IF IsDirectErrorCase(distinctTerms, doc_type)
        THEN [results |-> executeDirectErrorSearch(D, SI, order),
              related_suggestions |-> generate_related_suggestions(<<<<"e","r","r","o","r">>>>),
              executed |-> <<"direct_error">>]
        ELSE
        LET term_results == TermSearch(distinctTerms, exact_phrases, doc_type, pkg, D, SI, order)
            fallback     == RunsFallback(term_results, distinctTerms, exact_phrases)
            search_results ==
                IF fallback
                THEN FallbackSearch(FallbackSearchTerms(distinctTerms, exact_phrases),
                                    doc_type, pkg, D, order)
                ELSE term_results
        IN [results |-> flatten_grouped_results(group_by_category(search_results)),
            related_suggestions |-> generate_related_suggestions(terms),
            executed |-> IF fallback THEN <<"term", "fallback">> ELSE <<"term">>]

\* ------------------------------------------------------------------------
\* docs/fetcher.ts: process_docs, first pass (sections to documents)
\* ------------------------------------------------------------------------
\* current_hierarchy[0] read before any top-level heading was seen
UNDEFINED == <<"undefined">>

Letters == LowerLetters \cup DOMAIN UpperToLower

\* SniffType falling back to 'api' when no keyword matches
SniffType_DefaultApi(section, current_type) ==
    LET lower == toLowerCase(section)
    IN  IF includes(lower, <<"a","p","i">>) THEN "api"
        ELSE IF includes(lower, <<"t","u","t","o","r","i","a","l">>) THEN "tutorial"
        ELSE IF includes(lower, <<"e","x","a","m","p","l","e">>) THEN "example"
        ELSE IF includes(lower, <<"e","r","r","o","r">>) THEN "error"
        ELSE "api"

\* the heading sniffing of a '# ' section
SniffType(section, current_type) ==
    LET lower == toLowerCase(section)
    IN  IF includes(lower, <<"a","p","i">>) THEN "api"
        ELSE IF includes(lower, <<"t","u","t","o","r","i","a","l">>) THEN "tutorial"
        ELSE IF includes(lower, <<"e","x","a","m","p","l","e">>) THEN "example"
        ELSE IF includes(lower, <<"e","r","r","o","r">>) THEN "error"
        ELSE current_type

\* the matches of /\$[a-zA-Z][a-zA-Z0-9_]*/g at or after position i
RECURSIVE SpecialMatches(_, _)
SpecialMatches(s, i) ==
    IF i >= Len(s) THEN <<>>
    ELSE IF s[i] = "$" /\ s[i + 1] \in Letters
    THEN LET e == CHOOSE e \in (i + 1)..Len(s) :
                     /\ \A k \in (i + 2)..e : s[k] \in WordChars
                     /\ e = Len(s) \/ s[e + 1] \notin WordChars
         IN <<SubSeq(s, i, e)>> \o SpecialMatches(s, e + 1)
    ELSE SpecialMatches(s, i + 1)

\* the term -> frequency table of a token list, as a set of entries
Frequencies(tokens) ==
    {[term |-> t, frequency |-> Count(tokens, t)] : t \in Range(tokens)}

\* terms = { ...normalTerms, ...specialTerms }
SectionTerms(section) ==
    LET lower        == toLowerCase(section)
        specialTerms == Frequencies(SpecialMatches(lower, 1))
        normalTerms  == Frequencies(SelectSeq(split(lower, NonWordChars),
                                              LAMBDA t : Len(t) > 2))
    IN {e \in normalTerms : \A s \in specialTerms : s.term # e.term} \cup specialTerms

\* id_parts.join('-')
DocId(package_name, variant, current_hierarchy) ==
    join((IF package_name # NULL THEN <<W[package_name]>> ELSE <<>>)
         \o (IF variant # NULL THEN <<W[variant]>> ELSE <<>>)
         \o [k \in 1..Len(current_hierarchy) |->
               IF current_hierarchy[k] = UNDEFINED
               THEN <<>>
               ELSE toLowerCase(current_hierarchy[k])],
         <<"-">>)

\* one content unit: the docs row and its index operation
ContentUnit(section, current_type, current_hierarchy, package_name, variant) ==
    [doc |-> [id |-> DocId(package_name, variant, current_hierarchy),
              type |-> current_type,
              package |-> package_name,
              variant |-> variant,
              hierarchy |-> current_hierarchy,
              content |-> section],
     weight |-> IF Len(current_hierarchy) = 1 THEN 20 ELSE 10,
     terms |-> SectionTerms(section)]

\* SecondLevelHierarchy appending the title to the path
SecondLevelHierarchy_Appending(current_hierarchy, section) ==
    Append(current_hierarchy, SubSeq(section, 4, Len(section)))

\* [current_hierarchy[0], section.substring(3)]
SecondLevelHierarchy(current_hierarchy, section) ==
    <<IF Len(current_hierarchy) = 0 THEN UNDEFINED ELSE current_hierarchy[1],
      SubSeq(section, 4, Len(section))>>

\* the state of the first pass before any section: the next section, the
\* current type and hierarchy, and the documents collected
ScanStart ==
    [i |-> 1, current_type |-> "api", current_hierarchy |-> <<>>, processed_docs |-> <<>>]

\* one iteration of the loop of the first pass, on section
ScanSection(scan, section, package_name, variant) ==
    IF startsWith(section, <<"#"," ">>)
    THEN [scan EXCEPT !.i = @ + 1,
                      !.current_hierarchy = <<SubSeq(section, 3, Len(section))>>,
                      !.current_type = SniffType(section, scan.current_type)]
    ELSE IF startsWith(section, <<"#","#"," ">>)
    THEN [scan EXCEPT !.i = @ + 1,
                      !.current_hierarchy = SecondLevelHierarchy(scan.current_hierarchy, section)]
    ELSE IF trimIsNonEmpty(section)
    THEN [scan EXCEPT !.i = @ + 1,
                      !.processed_docs =
                          Append(@, ContentUnit(section, scan.current_type,
                                                scan.current_hierarchy,
                                                package_name, variant).doc)]
    ELSE [scan EXCEPT !.i = @ + 1]

\* the first pass over sections[i..], processed_docs and index_operations
\* zipped into one list
RECURSIVE CollectUnits(_, _, _, _, _, _)
CollectUnits(sections, i, current_type, current_hierarchy, package_name, variant) ==
    IF i > Len(sections) THEN <<>>
    ELSE LET section == sections[i]
         IN  IF startsWith(section, <<"#"," ">>)
             THEN CollectUnits(sections, i + 1, SniffType(section, current_type),
                               <<SubSeq(section, 3, Len(section))>>,
                               package_name, variant)
             ELSE IF startsWith(section, <<"#","#"," ">>)
             THEN CollectUnits(sections, i + 1, current_type,
                               SecondLevelHierarchy(current_hierarchy, section),
                               package_name, variant)
             ELSE IF trimIsNonEmpty(section)
             THEN <<ContentUnit(section, current_type, current_hierarchy,
                                package_name, variant)>>
                  \o CollectUnits(sections, i + 1, current_type, current_hierarchy,
                                  package_name, variant)
             ELSE CollectUnits(sections, i + 1, current_type, current_hierarchy,
                               package_name, variant)

\* ------------------------------------------------------------------------
\* The store: INSERT OR REPLACE
\* ------------------------------------------------------------------------
\* INSERT OR REPLACE INTO docs: a row with the same id is deleted and the
\* new row is added at the end of the table
UpsertDoc(D, doc) == Append(SelectSeq(D, LAMBDA d : d.id # doc.id), doc)

\* UpsertEntries adding the new frequency to the stored one instead of
\* replacing the row
UpsertEntries_Accumulating(SI, es) ==
    {x \in SI : \A e \in es : ~(x.doc_id = e.doc_id /\ x.term = e.term)}
    \cup {[e EXCEPT !.frequency =
                e.frequency + SumValues({<<x, x.frequency>> :
                    x \in {y \in SI : y.doc_id = e.doc_id /\ y.term = e.term}})] : e \in es}

\* INSERT OR REPLACE INTO search_index with the rows of one index operation:
\* (doc_id, term) is the primary key, and the terms of one operation are
\* distinct
UpsertEntries(SI, es) ==
    {x \in SI : \A e \in es : ~(x.doc_id = e.doc_id /\ x.term = e.term)} \cup es

IndexRows(unit) ==
    {[doc_id |-> unit.doc.id, term |-> t.term, frequency |-> t.frequency,
      section_importance |-> unit.weight] : t \in unit.terms}

RECURSIVE WriteDocs(_, _)
WriteDocs(D, units) ==
    IF Len(units) = 0 THEN D
    ELSE WriteDocs(UpsertDoc(D, units[1].doc), Tail(units))

RECURSIVE WriteIndex(_, _)
WriteIndex(SI, units) ==
    IF Len(units) = 0 THEN SI
    ELSE WriteIndex(UpsertEntries(SI, IndexRows(units[1])), Tail(units))

\* ------------------------------------------------------------------------
\* index_doc_content
\* ------------------------------------------------------------------------
ContentTerms(content) ==
    Frequencies(SelectSeq(split(toLowerCase(content), SpaceChars), LAMBDA t : Len(t) > 2))

index_doc_content(SI, doc_id, content, section_importance) ==
    UpsertEntries(SI, {[doc_id |-> doc_id, term |-> t.term, frequency |-> t.frequency,
                        section_importance |-> section_importance] : t \in ContentTerms(content)})

\* ------------------------------------------------------------------------
\* Inputs
\* ------------------------------------------------------------------------
\* the most indexing operations in one behaviour
MaxIndexOps == 2

\* fetched documentation texts, as the sections content.split('\n\n') yields
Texts ==
    [errors |-> <<<<"#"," ","E","r","r","o","r","s">>, <<"a","n"," ","e","r","r","o","r">>,
                  <<"#","#"," ","A">>, <<"e","r","r","o","r"," ","e","r","r","o","r">>,
                  <<"#","#"," ","B">>, <<"e","r","r","o","r"," ","$","s","t","a","t","e">>,
                  <<"#","#"," ","C">>, <<"E","r","r","o","r"," ","l","o","a","d">>,
                  <<"#","#"," ","D">>, <<"e","r","r","o","r"," ","x","-","y">>,
                  <<"#","#"," ","E">>, <<"e","r","r","o","r"," ","r","o","u","t","i","n","g"," ","p","a","r","a","m","s">>>>,
     guide  |-> <<<<"r","o","u","t","i","n","g"," ","e","r","r","o","r">>,
                  <<"#","#"," ","I","n","t","r","o">>, <<"$","s","t","a","t","e"," ","s","t","a","t","e">>,
                  <<"#"," ","T","u","t","o","r","i","a","l">>, <<"x","_","y"," ","p","a","r","a","m","s">>,
                  <<" "," ">>>>]

\* (package, variant) of the fetch_docs calls
Targets == {<<"svelte", NULL>>, <<"kit", NULL>>}

\* arguments of index_doc_content calls: doc_id, content, section_importance
DirectIndexCalls == {<<"svelte-errors", "error load error", 10>>}

Queries ==
    {<<>>, <<"a","b">>, <<"$","s","t","a","t","e">>, <<"e","r","r","o","r">>, <<"E","r","r","o","r">>, <<"e","r","r","o","r"," ","e","r","r","o","r">>,
     <<"s","l","o","t">>, <<"r","u","n","e">>, <<"c","o","m","p","o","n","e","n","t">>, <<"r","o","u","t","i","n","g">>,
     <<"s","t","a","t","e"," ","s","t","o","r","e">>, <<"r","o","u","t","i","n","g"," ","p","a","r","a","m","s">>, <<"r","o","u","t","i","n","g"," ","p","a","r","a","m","s"," ","e","r","r","o","r">>,
     <<"e","r","r","o","r"," ","w","a","r","n","i","n","g"," ","d","e","b","u","g">>,
     <<"p","a","r","a","m","s"," ","s","l","o","t"," ","r","u","n","e"," ","b","i","n","d">>,
     <<"\"","x","_","y","\"">>, <<"\"","e","r","r","o","r","\"">>, <<"\"","n","o"," ","s","l","o","t","\"">>, <<"\"","e","r","r","o","r","\""," ","\"","l","o","a","d","\"">>,
     <<"e","r","r","o","r"," ","\"","x","-","y","\"">>, <<"p","a","r","a","m","s"," ","\"","x","_","y","\"">>, <<"e","r","r","o","r"," ","\"">>}

\* doc_type values a client may send; "guide" is outside the enumeration
DocTypeArgs == {"all", "error", "api", "guide"}

PackageArgs == {NULL, "kit"}

\* ------------------------------------------------------------------------
\* State
\* ------------------------------------------------------------------------
VARIABLES
    docs,           \* table docs, in rowid order
    search_index,   \* table search_index
    history,        \* the indexing operations performed so far
    request,        \* the svelte_search_docs call being answered, if any
    response,       \* what the handler returns for it
    tx,             \* the transaction open on the shared store client
    fetches,        \* the fetch_docs calls of init_docs, one per target
    server,         \* refresh settings and the progress of runServer
    detect,         \* an isSvelteQuery call: its argument and its result
    invoked         \* a call of a function of the search module or of the scan
                    \* of process_docs: its name, argument and result

vars == <<docs, search_index, history, request, response, tx, fetches, server, detect, invoked>>

\* the state of startup and of the Svelte query detection
startupVars == <<tx, fetches, server>>

NoRequest == [active |-> FALSE, query |-> <<>>, doc_type |-> "all", package |-> NULL]

NoResponse == [isError |-> FALSE, results |-> <<>>, related_suggestions |-> <<>>,
               executed |-> <<>>]

\* no transaction is open on the client.  While one is open, docs and
\* search_index hold the rows the client reads (its own uncommitted writes
\* included) and tx.docs, tx.search_index the rows as last committed;
\* dirtyRead records that a query answered since BEGIN returned a document
\* that is not a committed row.
NoTransaction == [open |-> FALSE, docs |-> <<>>, search_index |-> {}, dirtyRead |-> FALSE]

\* the rows as last committed
CommittedDocs == IF tx.open THEN tx.docs ELSE docs
CommittedIndex == IF tx.open THEN tx.search_index ELSE search_index

\* Object.keys(PACKAGE_DOCS)
PACKAGE_DOCS == <<"svelte", "kit", "cli">>

\* the variants of Object.entries(ROOT_DOCS), '.txt' removed
ROOT_DOCS == <<"llms", "llms-full", "llms-small">>

\* (package_name, variant) of the fetch_docs calls of init_docs
FetchTargets ==
    {<<PACKAGE_DOCS[k], NULL>> : k \in 1..Len(PACKAGE_DOCS)}
    \cup {<<NULL, ROOT_DOCS[k]>> : k \in 1..Len(ROOT_DOCS)}

\* a fetch_docs call that has not been made
IdleFetch == [pc |-> "idle", text |-> NULL, i |-> 0, j |-> 0,
              rejected |-> FALSE, result |-> <<>>]

NoFetches == [t \in FetchTargets |-> IdleFetch]

\* the process has not been started
ServerOff == [phase |-> "off", serving |-> FALSE, args |-> <<>>,
              refreshMode |-> NULL, REFRESH_MODE |-> "DAILY", UPDATE_INTERVAL |-> 0]

NoDetect == [called |-> FALSE, query |-> <<>>, result |-> FALSE]

NoCall == [fn |-> NULL, called |-> FALSE, arg |-> <<>>, result |-> <<>>]

Init ==
    /\ docs = <<>>
    /\ search_index = {}
    /\ history = <<>>
    /\ request = NoRequest
    /\ response = NoResponse
    /\ tx = NoTransaction
    /\ fetches = NoFetches
    /\ server = ServerOff
    /\ detect = NoDetect
    /\ invoked = NoCall

\* ------------------------------------------------------------------------
\* Indexing
\* ------------------------------------------------------------------------
\* process_docs(content, package_name, variant) running to completion
ProcessDocs(text, package_name, variant) ==
    /\ ~request.active
    /\ Len(history) < MaxIndexOps
    /\ LET units == CollectUnits(Texts[text], 1, "api", <<>>, package_name, variant)
       IN /\ docs' = WriteDocs(docs, units)
          /\ search_index' = WriteIndex(search_index, units)
    /\ history' = Append(history, [op |-> "process_docs", text |-> text,
                                   package |-> package_name, variant |-> variant,
                                   doc_id |-> NULL, section_importance |-> 0])
    /\ UNCHANGED <<request, response, startupVars, detect, invoked>>

IndexDocContent(doc_id, content, section_importance) ==
    /\ ~request.active
    /\ Len(history) < MaxIndexOps
    /\ search_index' = index_doc_content(search_index, W[doc_id], W[content], section_importance)
    /\ history' = Append(history, [op |-> "index_doc_content", text |-> content,
                                   package |-> NULL, variant |-> NULL,
                                   doc_id |-> doc_id,
                                   section_importance |-> section_importance])
    /\ UNCHANGED <<docs, request, response, startupVars, detect, invoked>>

\* ------------------------------------------------------------------------
\* index.ts: the svelte_search_docs branch of the CallTool handler
\* ------------------------------------------------------------------------
\* schema.parse(toolArgs) accepts the doc_type
ValidDocType(doc_type) == doc_type \in {"api", "tutorial", "example", "error", "all"}

\* ToolResponse flagging an empty result list as an error
ToolResponse_EmptyIsError(query, doc_type, pkg, D, SI, order) ==
    IF ~ValidDocType(doc_type)
    THEN [isError |-> TRUE, results |-> <<>>, related_suggestions |-> <<>>,
          executed |-> <<>>]
    ELSE LET out == search_docs(query, doc_type, pkg, D, SI, order)
         IN [isError |-> Len(out.results) = 0, results |-> out.results,
             related_suggestions |-> out.related_suggestions,
             executed |-> out.executed]

\* the handler's answer: the catch branch when schema.parse throws,
\* otherwise the outcome of search_docs with isError: false, for the
\* "No results found" text and for the formatted result list alike
ToolResponse(query, doc_type, pkg, D, SI, order) ==
    IF ~ValidDocType(doc_type)
    THEN [isError |-> TRUE, results |-> <<>>, related_suggestions |-> <<>>,
          executed |-> <<>>]
    ELSE LET out == search_docs(query, doc_type, pkg, D, SI, order)
         IN [isError |-> FALSE, results |-> out.results,
             related_suggestions |-> out.related_suggestions,
             executed |-> out.executed]

\* tx after a query has read the store and got answer: dirtyRead is set
\* when a returned document is not a committed row
NoteRead(answer) ==
    IF tx.open
    THEN [tx EXCEPT !.dirtyRead =
             @ \/ \E i \in 1..Len(answer.results) :
                     \A k \in 1..Len(tx.docs) :
                        \/ tx.docs[k].id # answer.results[i].id
                        \/ tx.docs[k].content # answer.results[i].content]
    ELSE tx

CallSearchDocs(query, doc_type, pkg) ==
    /\ ~request.active
    /\ request' = [active |-> TRUE, query |-> query, doc_type |-> doc_type, package |-> pkg]
    /\ \E order \in ScanOrders :
          /\ response' = ToolResponse(query, doc_type, pkg, docs, search_index, order)
          /\ tx' = NoteRead(response')
    /\ UNCHANGED <<docs, search_index, history, fetches, server, detect, invoked>>

\* the response has been sent
Return ==
    /\ request.active
    /\ request' = NoRequest
    /\ response' = NoResponse
    /\ UNCHANGED <<docs, search_index, history, startupVars, detect, invoked>>

Next ==
    \/ \E text \in DOMAIN Texts, target \in Targets : ProcessDocs(text, target[1], target[2])
    \/ \E call \in DirectIndexCalls : IndexDocContent(call[1], call[2], call[3])
    \/ \E query \in Queries, doc_type \in DocTypeArgs, pkg \in PackageArgs :
          CallSearchDocs(query, doc_type, pkg)
    \/ Return

Spec == Init /\ [][Next]_vars

\* ------------------------------------------------------------------------
\* index.ts: argument parsing; docs/fetcher.ts: setRefreshMode
\* ------------------------------------------------------------------------
DAILY_UPDATE_INTERVAL == 24 * 60 * 60 * 1000

WEEKLY_UPDATE_INTERVAL == 7 * 24 * 60 * 60 * 1000

UpperChar(c) ==
    IF \E u \in DOMAIN UpperToLower : UpperToLower[u] = c
    THEN CHOOSE u \in DOMAIN UpperToLower : UpperToLower[u] = c
    ELSE c

\* String.prototype.toUpperCase
toUpperCase(s) == [i \in 1..Len(s) |-> UpperChar(s[i])]

\* the loop over args[i..]: the last refresh option wins
RECURSIVE ParseArgs(_, _, _)
ParseArgs(args, i, refreshMode) ==
    IF i > Len(args) THEN refreshMode
    ELSE LET arg == toUpperCase(args[i])
         IN ParseArgs(args, i + 1,
                IF \/ arg = <<"-","-","R","E","F","R","E","S","H">>
                   \/ arg = <<"-","-","R","E","F","R","E","S","H","=","D","A","I","L","Y">>
                THEN "DAILY"
                ELSE IF arg = <<"-","-","R","E","F","R","E","S","H","=","W","E","E","K","L","Y">>
                THEN "WEEKLY"
                ELSE refreshMode)

\* the process after its modules are loaded: the arguments are parsed and
\* setRefreshMode is called when a refresh option was given
Loaded(args) ==
    LET refreshMode == ParseArgs(args, 1, NULL)
    IN [phase |-> "loaded", serving |-> FALSE, args |-> args,
        refreshMode |-> refreshMode,
        REFRESH_MODE |-> IF refreshMode = NULL THEN "DAILY" ELSE refreshMode,
        UPDATE_INTERVAL |-> IF refreshMode = "WEEKLY"
                            THEN WEEKLY_UPDATE_INTERVAL
                            ELSE DAILY_UPDATE_INTERVAL]

\* ------------------------------------------------------------------------
\* docs/fetcher.ts: fetch_docs and process_docs, statement by statement
\* ------------------------------------------------------------------------
\* batch_size is 500 in process_docs; it is scaled to the texts below so
\* that one text spans several batches
batch_size == 2

\* the texts the documentation site may answer with, as sections: one per
\* package, one for the root variants, and one without content
FetchTexts ==
    [svelte |-> <<<<"#"," ","E","r","r","o","r","s">>, <<"a","n"," ","e","r","r","o","r">>,
                  <<"x">>, <<"#","#"," ","A">>, <<"l","o","a","d"," ","e","r","r","o","r">>>>,
     kit    |-> <<<<"#"," ","A","p","i">>, <<"l","o","a","d"," ","d","a","t","a">>>>,
     cli    |-> <<<<"s","v"," ","c","r","e","a","t","e">>>>,
     root   |-> <<<<"e","r","r","o","r"," ","d","o","c","s">>>>,
     blank  |-> <<<<"#"," ","A","p","i">>, <<" ">>>>]

\* what the fetch for a target may come to: a rejected fetch, a response
\* that is not ok, the text of the target, or a text without content
FetchOutcomes(target) ==
    {"network_error", "not_ok", "blank", IF target[1] # NULL THEN target[1] ELSE "root"}

\* processed_docs and index_operations of the first pass of process_docs
Units(target, text) == CollectUnits(FetchTexts[text], 1, "api", <<>>, target[1], target[2])

\* the last unit of the batch that starts at unit i
BatchEnd(units, i) == IF i + batch_size - 1 < Len(units) THEN i + batch_size - 1 ELSE Len(units)

\* the first index operation at or after unit j of the batch starting at i
\* that has terms (op.terms.length === 0 is skipped), 0 when there is none
NextIndexOp(units, i, j) ==
    LET ops == {k \in j..BatchEnd(units, i) : units[k].terms # {}}
    IN IF ops = {} THEN 0 ELSE CHOOSE k \in ops : \A m \in ops : k <= m

\* fetch_docs returns: processed_docs, or [] from its catch block, in
\* which the error is logged and dropped; the promise is never rejected
Returned(result) == [IdleFetch EXCEPT !.pc = "done", !.result = result]

\* after a statement of the batch: on to the next index operation or to
\* COMMIT
AfterWrite(f, units, j) ==
    LET k == NextIndexOp(units, f.i, j)
    IN IF k = 0 THEN [f EXCEPT !.pc = "commit", !.j = 0]
       ELSE [f EXCEPT !.pc = "insert_index", !.j = k]

\* await fetch(url), response.ok, response.text() and the first pass of
\* process_docs
FetchResponse(target, outcome) ==
    LET f == fetches[target]
    IN /\ ~request.active
       /\ f.pc = "fetch"
       /\ fetches' = [fetches EXCEPT ![target] =
             IF outcome \in {"network_error", "not_ok"}
             THEN Returned(<<>>)
             ELSE IF Len(Units(target, outcome)) = 0
             THEN Returned(<<>>)
             ELSE [f EXCEPT !.pc = "begin", !.text = outcome, !.i = 1]]
       /\ UNCHANGED <<docs, search_index, history, request, response, tx, server, detect, invoked>>

\* await db.execute('BEGIN TRANSACTION'): it fails when the store fails
\* and when a transaction is already open on the client; the failure is
\* thrown outside the inner try, so no ROLLBACK follows
Begin(target) ==
    LET f == fetches[target]
    IN /\ ~request.active
       /\ f.pc = "begin"
       /\ \E ok \in BOOLEAN :
             IF ok /\ ~tx.open
             THEN /\ tx' = [open |-> TRUE, docs |-> docs, search_index |-> search_index,
                            dirtyRead |-> FALSE]
                  /\ fetches' = [fetches EXCEPT ![target] = [f EXCEPT !.pc = "insert_docs"]]
             ELSE /\ tx' = tx
                  /\ fetches' = [fetches EXCEPT ![target] = Returned(<<>>)]
       /\ UNCHANGED <<docs, search_index, history, request, response, server, detect, invoked>>

\* INSERT OR REPLACE INTO docs with the rows of the batch
InsertDocs(target) ==
    LET f     == fetches[target]
        units == Units(target, f.text)
    IN /\ ~request.active
       /\ f.pc = "insert_docs"
       /\ \E ok \in BOOLEAN :
             IF ok
             THEN /\ docs' = WriteDocs(docs, SubSeq(units, f.i, BatchEnd(units, f.i)))
                  /\ fetches' = [fetches EXCEPT ![target] = AfterWrite(f, units, f.i)]
             ELSE /\ docs' = docs
                  /\ fetches' = [fetches EXCEPT ![target] =
                                    [f EXCEPT !.pc = "rollback"]]
       /\ UNCHANGED <<search_index, history, request, response, tx, server, detect, invoked>>

\* INSERT OR REPLACE INTO search_index with the terms of one index operation
InsertIndex(target) ==
    LET f     == fetches[target]
        units == Units(target, f.text)
    IN /\ ~request.active
       /\ f.pc = "insert_index"
       /\ \E ok \in BOOLEAN :
             IF ok
             THEN /\ search_index' = UpsertEntries(search_index, IndexRows(units[f.j]))
                  /\ fetches' = [fetches EXCEPT ![target] = AfterWrite(f, units, f.j + 1)]
             ELSE /\ search_index' = search_index
                  /\ fetches' = [fetches EXCEPT ![target] =
                                    [f EXCEPT !.pc = "rollback"]]
       /\ UNCHANGED <<docs, history, request, response, tx, server, detect, invoked>>

\* Commit with its COMMIT outside the try: when the statement fails, the
\* error is thrown without a ROLLBACK
Commit_Unhandled(target) ==
    LET f     == fetches[target]
        units == Units(target, f.text)
    IN /\ ~request.active
       /\ f.pc = "commit"
       /\ \E ok \in BOOLEAN :
             IF ok
             THEN /\ tx' = NoTransaction
                  /\ fetches' = [fetches EXCEPT ![target] =
                        IF f.i + batch_size <= Len(units)
                        THEN [f EXCEPT !.pc = "begin", !.i = f.i + batch_size]
                        ELSE Returned([k \in 1..Len(units) |-> units[k].doc.id])]
             ELSE /\ tx' = tx
                  /\ fetches' = [fetches EXCEPT ![target] = Returned(<<>>)]
       /\ UNCHANGED <<docs, search_index, history, request, response, server, detect, invoked>>

\* COMMIT, then the next batch or return processed_docs
Commit(target) ==
    LET f     == fetches[target]
        units == Units(target, f.text)
    IN /\ ~request.active
       /\ f.pc = "commit"
       /\ \E ok \in BOOLEAN :
             IF ok
             THEN /\ tx' = NoTransaction
                  /\ fetches' = [fetches EXCEPT ![target] =
                        IF f.i + batch_size <= Len(units)
                        THEN [f EXCEPT !.pc = "begin", !.i = f.i + batch_size]
                        ELSE Returned([k \in 1..Len(units) |-> units[k].doc.id])]
             ELSE /\ tx' = tx
                  /\ fetches' = [fetches EXCEPT ![target] =
                                    [f EXCEPT !.pc = "rollback"]]
       /\ UNCHANGED <<docs, search_index, history, request, response, server, detect, invoked>>

\* Rollback going on to throw without sending ROLLBACK to the store
Rollback_Skipped(target) ==
    LET f == fetches[target]
    IN /\ ~request.active
       /\ f.pc = "rollback"
       /\ tx' = NoTransaction
       /\ fetches' = [fetches EXCEPT ![target] = Returned(<<>>)]
       /\ UNCHANGED <<docs, search_index, history, request, response, server, detect, invoked>>

\* the catch block of the batch: ROLLBACK, then throw; process_docs
\* rethrows and fetch_docs returns [].  When ROLLBACK itself fails its
\* error is the one thrown and the transaction stays open.
Rollback(target) ==
    LET f == fetches[target]
    IN /\ ~request.active
       /\ f.pc = "rollback"
       /\ \E ok \in BOOLEAN :
             IF ok
             THEN /\ docs' = tx.docs
                  /\ search_index' = tx.search_index
                  /\ tx' = NoTransaction
                  /\ fetches' = [fetches EXCEPT ![target] = Returned(<<>>)]
             ELSE /\ UNCHANGED <<docs, search_index, tx>>
                  /\ fetches' = [fetches EXCEPT ![target] = Returned(<<>>)]
       /\ UNCHANGED <<history, request, response, server, detect, invoked>>

\* ------------------------------------------------------------------------
\* index.ts: runServer; docs/fetcher.ts: init_docs
\* ------------------------------------------------------------------------
\* command lines the server is started with
ArgLists ==
    {<<>>,
     <<<<"-","-","r","e","f","r","e","s","h">>>>,
     <<<<"-","-","r","e","f","r","e","s","h","=","D","A","I","L","Y">>>>,
     <<<<"-","-","r","e","f","r","e","s","h","=","W","E","E","K","L","Y">>>>}

\* what the store holds when the process starts: nothing, or the documents
\* of an earlier run
StoredUnits == Units(<<"svelte", NULL>>, "svelte")

EmptyStore == [docs |-> <<>>, search_index |-> {}]

FilledStore ==
    [docs |-> WriteDocs(<<>>, StoredUnits), search_index |-> WriteIndex({}, StoredUnits)]

\* the starts of the process: every command line on a filled store, and
\* two of them on an empty store (init_docs and fetch_docs do not read the
\* refresh settings)
Startups ==
    {[args |-> args, store |-> FilledStore] : args \in ArgLists}
    \cup {[args |-> args, store |-> EmptyStore] :
             args \in {<<>>, <<<<"-","-","r","e","f","r","e","s","h","=","W","E","E","K","L","Y">>>>}}

\* queries sent while the server is starting
ProbeQueries == {<<"e","r","r","o","r">>}

PackageTargets == {t \in FetchTargets : t[1] # NULL}

RootTargets == {t \in FetchTargets : t[1] = NULL}

\* the fetch_docs calls for the targets T are made
StartFetches(T) ==
    [t \in FetchTargets |-> IF t \in T THEN [IdleFetch EXCEPT !.pc = "fetch"] ELSE fetches[t]]

InitStartup ==
    /\ \E start \in Startups :
          /\ docs = start.store.docs
          /\ search_index = start.store.search_index
          /\ server = Loaded(start.args)
    /\ history = <<>>
    /\ request = NoRequest
    /\ response = NoResponse
    /\ tx = NoTransaction
    /\ fetches = NoFetches
    /\ detect = NoDetect
    /\ invoked = NoCall

\* await server.connect(transport): from here on requests are served, and
\* the background initialization starts
Connect ==
    /\ ~request.active
    /\ server.phase = "loaded"
    /\ server' = [server EXCEPT !.phase = "verify_db", !.serving = TRUE]
    /\ UNCHANGED <<docs, search_index, history, request, response, tx, fetches, detect, invoked>>

\* dbReady = await verify_db(): with documents in the store the background
\* initialization returns; verify_db also returns false when its COUNT
\* statement fails (ok FALSE), whatever the store holds.  The tables
\* exist, so init_db is not called
VerifyDb ==
    /\ ~request.active
    /\ server.phase = "verify_db"
    /\ \E ok \in BOOLEAN :
          server' = [server EXCEPT !.phase = IF ok /\ Len(docs) > 0
                                             THEN "ready" ELSE "init_docs"]
    /\ UNCHANGED <<docs, search_index, history, request, response, tx, fetches, detect, invoked>>

\* init_docs up to Promise.all over the packages: return when documents
\* exist, otherwise clear both tables and call fetch_docs for every package
InitDocs ==
    /\ ~request.active
    /\ server.phase = "init_docs"
    /\ IF Len(docs) > 0
       THEN /\ server' = [server EXCEPT !.phase = "verify_again"]
            /\ UNCHANGED <<docs, search_index, fetches>>
       ELSE /\ search_index' = {}
            /\ docs' = <<>>
            /\ fetches' = StartFetches(PackageTargets)
            /\ server' = [server EXCEPT !.phase = "packages"]
    /\ UNCHANGED <<history, request, response, tx, detect, invoked>>

\* PackagesSettled going on to the root documents whatever the packages
\* returned
PackagesSettled_NoCheck ==
    /\ ~request.active
    /\ server.phase = "packages"
    /\ \A t \in PackageTargets : fetches[t].pc = "done"
    /\ fetches' = StartFetches(RootTargets)
    /\ server' = [server EXCEPT !.phase = "roots"]
    /\ UNCHANGED <<docs, search_index, history, request, response, tx, detect, invoked>>

\* Promise.all over the packages has settled: an empty result makes
\* init_docs throw, which the background initialization of runServer
\* catches and logs ("Keep server running anyway"); otherwise fetch_docs is
\* called for every root variant
PackagesSettled ==
    /\ ~request.active
    /\ server.phase = "packages"
    /\ \A t \in PackageTargets : fetches[t].pc = "done"
    /\ IF \E t \in PackageTargets : Len(fetches[t].result) = 0
       THEN /\ server' = [server EXCEPT !.phase = "failed"]
            /\ fetches' = fetches
       ELSE /\ server' = [server EXCEPT !.phase = "roots"]
            /\ fetches' = StartFetches(RootTargets)
    /\ UNCHANGED <<docs, search_index, history, request, response, tx, detect, invoked>>

\* Promise.all over the root variants has settled; their results are not
\* looked at
RootsSettled ==
    /\ ~request.active
    /\ server.phase = "roots"
    /\ \A t \in RootTargets : fetches[t].pc = "done"
    /\ server' = [server EXCEPT !.phase = "verify_again"]
    /\ UNCHANGED <<docs, search_index, history, request, response, tx, fetches, detect, invoked>>

\* dbReady = await verify_db() after init_docs; either outcome is logged
VerifyAgain ==
    /\ ~request.active
    /\ server.phase = "verify_again"
    /\ server' = [server EXCEPT !.phase = "ready"]
    /\ UNCHANGED <<docs, search_index, history, request, response, tx, fetches, detect, invoked>>

\* a svelte_search_docs request arriving once the transport is connected
SearchWhileStarting(query) ==
    /\ server.serving
    /\ CallSearchDocs(query, "all", NULL)

NextStartup ==
    \/ Connect
    \/ VerifyDb
    \/ InitDocs
    \/ \E target \in FetchTargets : \E outcome \in FetchOutcomes(target) :
          FetchResponse(target, outcome)
    \/ \E target \in FetchTargets : Begin(target)
    \/ \E target \in FetchTargets : InsertDocs(target)
    \/ \E target \in FetchTargets : InsertIndex(target)
    \/ \E target \in FetchTargets : Commit(target)
    \/ \E target \in FetchTargets : Rollback(target)
    \/ PackagesSettled
    \/ RootsSettled
    \/ VerifyAgain
    \/ \E query \in ProbeQueries : SearchWhileStarting(query)
    \/ Return

SpecStartup == InitStartup /\ [][NextStartup]_vars

\* ------------------------------------------------------------------------
\* index.ts: isSvelteQuery
\* ------------------------------------------------------------------------
CONTEXT_REQUIRED_TERMS ==
    {<<"e","r","r","o","r">>, <<"w","a","r","n","i","n","g">>, <<"d","e","b","u","g">>,
     <<"s","t","o","r","e">>, <<"l","o","a","d">>, <<"a","c","t","i","o","n">>}

ADDITIONAL_SVELTE_TERMS ==
    {<<"s","v","e","l","t","e">>, <<"s","v","e","l","t","e","k","i","t">>,
     <<"s","v","e","l","t","e",".","j","s">>, <<"r","u","n","e","s">>,
     <<"s","t","a","t","e">>}

\* the property names every object literal inherits from Object.prototype
ObjectPrototypeKeys ==
    {<<"c","o","n","s","t","r","u","c","t","o","r">>,
     <<"_","_","p","r","o","t","o","_","_">>,
     <<"h","a","s","O","w","n","P","r","o","p","e","r","t","y">>,
     <<"i","s","P","r","o","t","o","t","y","p","e","O","f">>,
     <<"p","r","o","p","e","r","t","y","I","s","E","n","u","m","e","r","a","b","l","e">>,
     <<"t","o","L","o","c","a","l","e","S","t","r","i","n","g">>,
     <<"t","o","S","t","r","i","n","g">>,
     <<"v","a","l","u","e","O","f">>,
     <<"_","_","d","e","f","i","n","e","G","e","t","t","e","r","_","_">>,
     <<"_","_","d","e","f","i","n","e","S","e","t","t","e","r","_","_">>,
     <<"_","_","l","o","o","k","u","p","G","e","t","t","e","r","_","_">>,
     <<"_","_","l","o","o","k","u","p","S","e","t","t","e","r","_","_">>}

\* term in TERM_WEIGHTS: the in operator finds own and inherited properties
InTermWeights(term) == term \in DOMAIN TERM_WEIGHTS \/ term \in ObjectPrototypeKeys

isSvelteQuery(query) ==
    LET lowercaseQuery == toLowerCase(query)
        queryTerms     == split(lowercaseQuery, SpaceChars)
        counted(term)  == InTermWeights(term) /\ term \notin CONTEXT_REQUIRED_TERMS
    IN  IF \E term \in ADDITIONAL_SVELTE_TERMS : includes(lowercaseQuery, term)
        THEN TRUE
        ELSE IF \E k \in 1..Len(queryTerms) :
                    Len(queryTerms[k]) >= 3 /\ counted(queryTerms[k])
        THEN TRUE
        ELSE /\ \E k \in 1..Len(queryTerms) : queryTerms[k] \in CONTEXT_REQUIRED_TERMS
             /\ \E k \in 1..Len(queryTerms) : counted(queryTerms[k])

\* words the queries given to isSvelteQuery are made of
DetectWords ==
    {<<"r","o","u","t","i","n","g">>, <<"e","r","r","o","r">>, <<"l","o","a","d">>,
     <<"S","t","o","r","e">>, <<"R","u","n","e","s">>, <<"e","s","t","a","t","e">>,
     <<"c","o","n","s","t","r","u","c","t","o","r">>, <<"a","b">>,
     <<"d","o","c","s">>, <<"c","o","m","p","o","n","e","n","t">>}

\* the queries: one word, or two words with a blank between them
DetectQueries ==
    DetectWords \cup {a \o <<" ">> \o b : a \in DetectWords, b \in DetectWords}

InitDetect ==
    /\ docs = <<>>
    /\ search_index = {}
    /\ history = <<>>
    /\ request = NoRequest
    /\ response = NoResponse
    /\ tx = NoTransaction
    /\ fetches = NoFetches
    /\ server = ServerOff
    /\ \E query \in DetectQueries :
          detect = [called |-> FALSE, query |-> query, result |-> FALSE]
    /\ invoked = NoCall

\* isSvelteQuery(detect.query) is called and returns
IsSvelteQuery ==
    /\ ~detect.called
    /\ detect' = [detect EXCEPT !.called = TRUE, !.result = isSvelteQuery(detect.query)]
    /\ UNCHANGED <<docs, search_index, history, request, response, startupVars, invoked>>

NextDetect == IsSvelteQuery

SpecDetect == InitDetect /\ [][NextDetect]_vars

\* ------------------------------------------------------------------------
\* Functions of search/index.ts called on their own
\* ------------------------------------------------------------------------
\* the longest result list handed to the assembler
MaxResults == 3

\* category values of SearchResult the assembler is given: two categories
\* and undefined
AssembleCategories == {"runes", "error", NULL}

\* relevance scores, in hundredths
AssembleScores == {100, 200}

\* the result lists a statement of search_docs may return: at most
\* MaxResults rows in descending score order; id is the row's position in
\* the list
RetrievedLists ==
    {rs \in UNION {[1..n -> [id : 1..MaxResults,
                              relevance_score : AssembleScores,
                              category : AssembleCategories]] : n \in 0..MaxResults} :
        /\ \A i \in 1..Len(rs) : rs[i].id = i
        /\ \A i \in 1..(Len(rs) - 1) : rs[i].relevance_score >= rs[i + 1].relevance_score}

\* words of document contents: the keywords of determine_category, some of
\* them capitalised or inside a longer word, and words without a keyword
CategoryWords ==
    {<<"r","u","n","e">>,
     <<"$","s","t","a","t","e">>,
     <<"$","E","f","f","e","c","t">>,
     <<"C","o","m","p","o","n","e","n","t">>,
     <<"l","i","f","e","c","y","c","l","e">>,
     <<"r","o","u","t","e","s">>,
     <<"n","a","v","i","g","a","t","i","o","n">>,
     <<"S","v","e","l","t","e","K","i","t">>,
     <<"e","r","r","o","r">>,
     <<"W","a","r","n","i","n","g">>,
     <<"d","e","b","u","g">>,
     <<"r","o","u","t","i","n","g">>,
     <<"s","t","a","t","e">>,
     <<"d","o","c","s">>}

\* document contents: one word, or two words separated by a blank
CategoryContents ==
    CategoryWords \cup {a \o <<" ">> \o b : a \in CategoryWords, b \in CategoryWords}

\* query terms given to generate_related_suggestions: keys of
\* RELATED_TERMS, words containing a key, a word contained in a key, a
\* term too short to be looked up and a word unrelated to any key
SuggestionTerms ==
    {<<"s","t","a","t","e">>,
     <<"s","t","a","t","e","s">>,
     <<"s","t","o","r","e">>,
     <<"e","r","r","o","r">>,
     <<"r","u","n","e","s">>,
     <<"r","u","n","e">>,
     <<"r","o","u","t","e","s">>,
     <<"p","a","r","a","m","s">>,
     <<"c","o","m","p","o","n","e","n","t">>,
     <<"s","l","o","t">>,
     <<"r","o","u","t">>,
     <<"a","b">>,
     <<"d","o","c","s">>}

\* the term lists of a query: one or two terms
SuggestionTermLists ==
    {<<a>> : a \in SuggestionTerms} \cup {<<a, b>> : a \in SuggestionTerms, b \in SuggestionTerms}

\* the longest text given to the first pass of process_docs, in sections
MaxSections == 3

\* sections of a fetched text: top-level headings with and without a type
\* keyword, second-level headings, content, a third-level heading, a
\* section of white space
ScanSections ==
    {<<"#"," ","A","p","i">>,
     <<"#"," ","E","r","r","o","r","s">>,
     <<"#"," ","I","n","t","r","o">>,
     <<"#"," ","E","x","a","m","p","l","e"," ","t","u","t","o","r","i","a","l">>,
     <<"#","#"," ","A">>,
     <<"#","#"," ","B">>,
     <<"l","o","a","d"," ","d","a","t","a">>,
     <<"#","#","#"," ","C">>,
     <<" ">>}

\* content.split('\n\n') of the texts
ScanTexts == UNION {[1..n -> ScanSections] : n \in 0..MaxSections}

InitCalls ==
    /\ docs = <<>>
    /\ search_index = {}
    /\ history = <<>>
    /\ request = NoRequest
    /\ response = NoResponse
    /\ tx = NoTransaction
    /\ fetches = NoFetches
    /\ server = ServerOff
    /\ detect = NoDetect
    /\ \/ \E rs \in RetrievedLists :
             invoked = [fn |-> "assemble", called |-> FALSE, arg |-> rs, result |-> <<>>]
       \/ \E terms \in SuggestionTermLists :
             invoked = [fn |-> "generate_related_suggestions", called |-> FALSE,
                        arg |-> terms, result |-> <<>>]
       \/ \E sections \in ScanTexts :
             invoked = [fn |-> "process_docs", called |-> FALSE,
                        arg |-> sections, result |-> ScanStart]
       \/ \E content \in CategoryContents :
             invoked = [fn |-> "determine_category", called |-> FALSE,
                        arg |-> content, result |-> NULL]

\* flatten_grouped_results(group_by_category(search_results)) is evaluated
Assemble ==
    /\ invoked.fn = "assemble"
    /\ ~invoked.called
    /\ invoked' = [invoked EXCEPT !.called = TRUE,
                      !.result = flatten_grouped_results(group_by_category(invoked.arg))]
    /\ UNCHANGED <<docs, search_index, history, request, response, startupVars, detect>>

\* determine_category(content) is evaluated
DetermineCategory ==
    /\ invoked.fn = "determine_category"
    /\ ~invoked.called
    /\ invoked' = [invoked EXCEPT !.called = TRUE,
                      !.result = determine_category(invoked.arg)]
    /\ UNCHANGED <<docs, search_index, history, request, response, startupVars, detect>>

\* generate_related_suggestions(terms) is evaluated
GenerateRelatedSuggestions ==
    /\ invoked.fn = "generate_related_suggestions"
    /\ ~invoked.called
    /\ invoked' = [invoked EXCEPT !.called = TRUE,
                      !.result = generate_related_suggestions(invoked.arg)]
    /\ UNCHANGED <<docs, search_index, history, request, response, startupVars, detect>>

\* the loop of the first pass of process_docs(content, 'svelte') takes
\* the next section
FirstPass ==
    /\ invoked.fn = "process_docs"
    /\ invoked.result.i <= Len(invoked.arg)
    /\ invoked' = [invoked EXCEPT !.called = TRUE,
                      !.result = ScanSection(invoked.result,
                                             invoked.arg[invoked.result.i],
                                             "svelte", NULL)]
    /\ UNCHANGED <<docs, search_index, history, request, response, startupVars, detect>>

NextCalls ==
    \/ Assemble
    \/ FirstPass
    \/ GenerateRelatedSuggestions
    \/ DetermineCategory

SpecCalls == InitCalls /\ [][NextCalls]_vars

\* ------------------------------------------------------------------------
\* db/client.ts: init_db; docs/fetcher.ts: fetch_docs; each run on its own
\* ------------------------------------------------------------------------
\* the statements of init_db between BEGIN TRANSACTION and COMMIT: two
\* DROP TABLE, two CREATE TABLE, four CREATE INDEX
SchemaStatements == 8

\* init_db about to send BEGIN TRANSACTION; k counts the statements the
\* store has executed
InitDbStart == [pc |-> "begin", k |-> 0]

\* one call on its own: init_db on an empty or a filled store, or
\* fetch_docs for one target on an empty store
InitSequential ==
    /\ history = <<>>
    /\ request = NoRequest
    /\ response = NoResponse
    /\ tx = NoTransaction
    /\ server = ServerOff
    /\ detect = NoDetect
    /\ \/ /\ \E store \in {EmptyStore, FilledStore} :
                docs = store.docs /\ search_index = store.search_index
          /\ fetches = NoFetches
          /\ invoked = [fn |-> "init_db", called |-> FALSE, arg |-> <<>>,
                        result |-> InitDbStart]
       \/ /\ docs = <<>>
          /\ search_index = {}
          /\ \E target \in FetchTargets :
                fetches = [t \in FetchTargets |->
                             IF t = target THEN [IdleFetch EXCEPT !.pc = "fetch"]
                             ELSE IdleFetch]
          /\ invoked = NoCall

\* await db.execute('BEGIN TRANSACTION'), the first statement inside the
\* try of init_db
InitDbBegin ==
    /\ invoked.fn = "init_db"
    /\ invoked.result.pc = "begin"
    /\ \E ok \in BOOLEAN :
          IF ok /\ ~tx.open
          THEN /\ tx' = [open |-> TRUE, docs |-> docs, search_index |-> search_index,
                         dirtyRead |-> FALSE]
               /\ invoked' = [invoked EXCEPT !.result = [pc |-> "schema", k |-> 1]]
          ELSE /\ tx' = tx
               /\ invoked' = [invoked EXCEPT !.result.pc = "rollback"]
    /\ UNCHANGED <<docs, search_index, history, request, response, fetches, server, detect>>

\* the next DROP TABLE, CREATE TABLE or CREATE INDEX statement of init_db
InitDbSchema ==
    /\ invoked.fn = "init_db"
    /\ invoked.result.pc = "schema"
    /\ \E ok \in BOOLEAN :
          IF ok
          THEN /\ search_index' = {}
               /\ docs' = IF invoked.result.k >= 2 THEN <<>> ELSE docs
               /\ invoked' = [invoked EXCEPT !.result =
                     IF invoked.result.k < SchemaStatements
                     THEN [pc |-> "schema", k |-> invoked.result.k + 1]
                     ELSE [pc |-> "commit", k |-> invoked.result.k + 1]]
          ELSE /\ UNCHANGED <<docs, search_index>>
               /\ invoked' = [invoked EXCEPT !.result.pc = "rollback"]
    /\ UNCHANGED <<history, request, response, tx, fetches, server, detect>>

\* await db.execute('COMMIT') of init_db
InitDbCommit ==
    /\ invoked.fn = "init_db"
    /\ invoked.result.pc = "commit"
    /\ \E ok \in BOOLEAN :
          IF ok
          THEN /\ tx' = NoTransaction
               /\ invoked' = [invoked EXCEPT !.called = TRUE, !.result.pc = "returned"]
          ELSE /\ tx' = tx
               /\ invoked' = [invoked EXCEPT !.result.pc = "rollback"]
    /\ UNCHANGED <<docs, search_index, history, request, response, fetches, server, detect>>

\* the catch block of init_db: await db.execute('ROLLBACK').catch(() => {}),
\* then throw.  The store refuses a ROLLBACK when no transaction is open;
\* that error, like any other of the statement, is ignored
InitDbRollback ==
    /\ invoked.fn = "init_db"
    /\ invoked.result.pc = "rollback"
    /\ \E ok \in BOOLEAN :
          IF ok /\ tx.open
          THEN /\ docs' = tx.docs
               /\ search_index' = tx.search_index
               /\ tx' = NoTransaction
          ELSE UNCHANGED <<docs, search_index, tx>>
    /\ invoked' = [invoked EXCEPT !.called = TRUE, !.result.pc = "thrown"]
    /\ UNCHANGED <<history, request, response, fetches, server, detect>>

NextSequential ==
    \/ InitDbBegin
    \/ InitDbSchema
    \/ InitDbCommit
    \/ InitDbRollback
    \/ \E target \in FetchTargets :
          \/ \E outcome \in FetchOutcomes(target) : FetchResponse(target, outcome)
          \/ Begin(target)
          \/ InsertDocs(target)
          \/ InsertIndex(target)
          \/ Commit(target)
          \/ Rollback(target)

SpecSequential == InitSequential /\ [][NextSequential]_vars

\* ------------------------------------------------------------------------
\* Properties
\* ------------------------------------------------------------------------
\* a svelte_search_docs call has been answered by search_docs
Answered == request.active /\ ~response.isError

ReqPhrases == ExactPhrases(request.query)
ReqTerms == QueryTerms(request.query)
ReqDistinctTerms == Dedup(ReqTerms)

Score(i) == response.results[i].relevance_score

NonIncreasingScores ==
    \A i, j \in 1..Len(response.results) : i < j => Score(i) >= Score(j)

\* C1: on every path of search_docs, the lower-cased content of each
\* returned result contains every quoted phrase of the query as a literal
\* substring.
C1_EveryPhraseInEveryResult ==
    Answered =>
        \A i \in 1..Len(response.results) : \A k \in 1..Len(ReqPhrases) :
            includes(toLowerCase(response.results[i].content), ReqPhrases[k])

\* C2: with a package filter p every returned result has package p, and
\* with a doc_type filter other than 'all' every returned result has that
\* type, whichever path produced the results.
C2_FiltersHoldOnEveryPath ==
    Answered =>
        \A i \in 1..Len(response.results) :
            /\ request.package # NULL => response.results[i].package = request.package
            /\ request.doc_type # "all" => response.results[i].type = request.doc_type

\* the score the weighted term search is specified to give document id for
\* the term set T: the sum of frequency * section_importance * weight(term)
\* over its index entries with a term in T (hundredths)
SpecifiedTermScore(id, T) ==
    SumValues({<<si, si.frequency * si.section_importance * WeightOr(si.term, 10)>> :
                 si \in {e \in search_index : e.doc_id = id /\ e.term \in T}})

\* C3: in term search, for a de-duplicated term set T of any size, each
\* returned document's relevance_score is the sum over its index entries
\* with a term in T of frequency * section_importance * weight(term).
C3_TermSearchScore ==
    (Answered /\ response.executed = <<"term">> /\ Len(ReqDistinctTerms) >= 1) =>
        \A i \in 1..Len(response.results) :
            Score(i) = SpecifiedTermScore(response.results[i].id, Range(ReqDistinctTerms))

\* C4: search_docs returns at most 10 results, sorted non-increasing by
\* relevance_score, on every path.
C4_AtMostTenSortedByScore ==
    Answered => Len(response.results) <= 10 /\ NonIncreasingScores

\* C4 witness: more than 10 stored documents, a full page of 10 results
\* with different scores at its two ends
C4_Witness ==
    /\ Answered
    /\ Len(docs) > 10
    /\ Len(response.results) = 10
    /\ Score(1) > Score(10)

\* C5: for the query $state the index is looked up with the term $state,
\* and the $state index entries are scored with the weight 1.5.
C5_SigilTermLookedUp ==
    (Answered /\ request.query = <<"$","s","t","a","t","e">>) =>
        /\ ReqDistinctTerms = <<<<"$","s","t","a","t","e">>>>
        /\ \A i \in 1..Len(response.results) :
              Score(i) = SumValues({<<si, si.frequency * si.section_importance * 15>> :
                            si \in {e \in search_index :
                                      /\ e.doc_id = response.results[i].id
                                      /\ e.term = <<"$","s","t","a","t","e">>}})

\* the request is the special case: doc_type error, term set {error}
IsErrorErrorRequest ==
    /\ Answered
    /\ request.doc_type = "error"
    /\ Range(ReqDistinctTerms) = {<<"e","r","r","o","r">>}

\* C6: with doc_type 'error' and the term set {error}, only the direct
\* statement is executed, and it returns at most 10 documents of type error
\* that have an index entry for the term error, each scored
\* frequency * section_importance, in descending order of score.
C6_DirectErrorSearch ==
    IsErrorErrorRequest =>
        /\ response.executed = <<"direct_error">>
        /\ Len(response.results) <= 10
        /\ NonIncreasingScores
        /\ \A i \in 1..Len(response.results) :
              /\ response.results[i].type = "error"
              /\ \E si \in search_index :
                    /\ si.doc_id = response.results[i].id
                    /\ si.term = <<"e","r","r","o","r">>
                    /\ Score(i) = si.frequency * si.section_importance * 10

\* C6 witness: the special case answered with documents of different scores
C6_Witness ==
    /\ IsErrorErrorRequest
    /\ Len(response.results) >= 2
    /\ Score(1) > Score(Len(response.results))

\* the request has phrases and no terms
IsPhraseOnlyRequest == Answered /\ Len(ReqTerms) = 0 /\ Len(ReqPhrases) > 0

\* C7: a query with no terms and at least one phrase reads only the docs
\* table (no term statement, no fallback) and returns at most 10 documents
\* that contain all phrases and pass the type and package filters, each
\* with relevance_score 1.0.
C7_PhraseOnlySearch ==
    IsPhraseOnlyRequest =>
        /\ response.executed = <<"phrase_only">>
        /\ Len(response.results) <= 10
        /\ \A i \in 1..Len(response.results) :
              /\ \A k \in 1..Len(ReqPhrases) :
                    includes(toLowerCase(response.results[i].content), ReqPhrases[k])
              /\ TypeFilter(response.results[i], request.doc_type)
              /\ PackageFilter(response.results[i], request.package)
              /\ Score(i) = 100

\* the term list search_docs hands to generate_related_suggestions
SuggestionInput ==
    IF response.executed = <<"phrase_only">>
    THEN Flatten([k \in 1..Len(ReqPhrases) |-> split(ReqPhrases[k], SpaceChars)])
    ELSE IF response.executed = <<"direct_error">> THEN <<<<"e","r","r","o","r">>>>
    ELSE ReqTerms

\* C8: generate_related_suggestions returns at most 5 suggestions, sorted
\* non-increasing by relevance, none of them a term of the given list.
C8_SuggestionsBoundedSortedFresh ==
    Answered =>
        /\ Len(response.related_suggestions) <= 5
        /\ \A i, j \in 1..Len(response.related_suggestions) :
              i < j => response.related_suggestions[i].relevance
                         >= response.related_suggestions[j].relevance
        /\ \A i \in 1..Len(response.related_suggestions) :
              response.related_suggestions[i].term \notin Range(SuggestionInput)

\* C8 witness: 'state store' - each term is an association of the other,
\* and more than 5 associations are on offer
C8_Witness ==
    /\ Answered
    /\ request.query = <<"s","t","a","t","e"," ","s","t","o","r","e">>
    /\ Len(response.related_suggestions) = 5
    /\ response.related_suggestions[1].relevance > response.related_suggestions[5].relevance

RepeatsLastIndexing ==
    /\ Len(history) >= 1
    /\ Len(history') = Len(history) + 1
    /\ history'[Len(history')] = history[Len(history)]

\* C10: indexing the same content for the same document id a second time
\* leaves the set of index entries (terms, frequencies, section_importance)
\* as it was after the first run.
C10_ReindexingIsIdempotent ==
    [][RepeatsLastIndexing => search_index' = search_index]_vars

\* C10 witness: process_docs has run twice in a row on the same text for
\* the same package and the index is not empty
C10_Witness ==
    /\ Len(history) >= 2
    /\ history[2] = history[1]
    /\ history[1].op = "process_docs"
    /\ search_index # {}

\* the request was answered by the term search followed by the fallback
FallbackExecuted == Answered /\ "fallback" \in Range(response.executed)

\* what the weighted term statement returns for the request on the store
\* as it is, for one scan order
ReqTermResults(order) ==
    TermSearch(ReqDistinctTerms, ReqPhrases, request.doc_type, request.package,
               docs, search_index, order)

\* C19: the fallback content search is executed only when the term search
\* returned zero results and the query had at least one term or phrase;
\* never after a term search that returned results, after the phrase-only
\* search or after the direct error search, and at most once per query.
C19_FallbackOnlyAfterEmptyTermSearch ==
    FallbackExecuted =>
        /\ response.executed = <<"term", "fallback">>
        /\ \A order \in ScanOrders : Len(ReqTermResults(order)) = 0
        /\ Len(ReqTerms) > 0 \/ Len(ReqPhrases) > 0
        /\ ~(Len(ReqTerms) = 0 /\ Len(ReqPhrases) > 0)
        /\ ~IsErrorErrorRequest

\* C19 witness: the fallback ran after an empty term search and found
\* documents
C19_Witness ==
    /\ FallbackExecuted
    /\ Len(ReqTermResults("rowid")) = 0
    /\ Len(response.results) > 0

\* the weighted term list the fallback builds for the request
ReqSearchTerms == FallbackSearchTerms(ReqDistinctTerms, ReqPhrases)

\* a term the fallback weights by the table: it contains the sigil or is a
\* key of TERM_WEIGHTS
IsWeightedTerm(t) == includes(t, <<"$">>) \/ t \in DOMAIN TERM_WEIGHTS

\* the entries of the fallback list that are plain terms
PlainEntries ==
    {k \in 1..Len(ReqSearchTerms) :
        /\ ReqSearchTerms[k].weight = 10
        /\ ReqSearchTerms[k].term \in Range(ReqDistinctTerms)
        /\ ~IsWeightedTerm(ReqSearchTerms[k].term)}

\* the fallback list is made of weighted terms, at most 3 plain terms
\* longer than minLen, and the phrases, and of nothing else
FallbackListShape(minLen) ==
    /\ \A k \in 1..Len(ReqSearchTerms) :
          LET e == ReqSearchTerms[k]
          IN \/ /\ e.term \in Range(ReqDistinctTerms)
                /\ IsWeightedTerm(e.term)
                /\ e.weight = WeightOr(e.term, 15)
             \/ /\ k \in PlainEntries
                /\ Len(e.term) > minLen
             \/ /\ e.term \in Range(ReqPhrases)
                /\ e.weight = 20
    /\ Cardinality(PlainEntries) <= 3
    /\ \A t \in Range(ReqDistinctTerms) :
          IsWeightedTerm(t) =>
              \E k \in 1..Len(ReqSearchTerms) :
                  ReqSearchTerms[k] = [term |-> t, weight |-> WeightOr(t, 15)]
    /\ \A ph \in Range(ReqPhrases) :
          \E k \in 1..Len(ReqSearchTerms) :
              ReqSearchTerms[k] = [term |-> ph, weight |-> 20]

\* C20 as stated: the fallback's weighted term list consists of every
\* distinct term that contains the sigil or is in the Term Weight Table at
\* its configured weight (1.5 when sigil-only), at most 3 further plain
\* terms, each of length > 4, at weight 1.0, and every phrase at weight
\* 2.0, and nothing else.
C20_FallbackTermList_AsStated == FallbackExecuted => FallbackListShape(4)

\* C20 amended: as C20, the further plain terms being those of length > 3.
C20_FallbackTermList == FallbackExecuted => FallbackListShape(3)

\* C20 witness: a query with four plain terms longer than 3 characters,
\* one of them of length 4, of which the fallback took three
C20_Witness ==
    /\ FallbackExecuted
    /\ Cardinality({t \in Range(ReqDistinctTerms) :
                       ~IsWeightedTerm(t) /\ Len(t) > 3}) = 4
    /\ Cardinality(PlainEntries) = 3
    /\ \E k \in PlainEntries : Len(ReqSearchTerms[k].term) = 4
    /\ Len(response.results) > 0

\* the whitespace-delimited tokens of the lower-cased query
DetectTokens == Range(split(toLowerCase(detect.query), SpaceChars))

\* the lower-cased query contains a strong indicator
HasStrongIndicator ==
    \E term \in ADDITIONAL_SVELTE_TERMS : includes(toLowerCase(detect.query), term)

\* C18: isSvelteQuery(q) is true whenever lower-cased q contains a strong
\* indicator as a substring or has a whitespace-delimited token that is a
\* Term Weight Table key other than a context-required term; it is false
\* whenever no strong indicator occurs and q's only Term Weight Table
\* tokens are context-required terms or q has none at all.
C18_IsSvelteQuery ==
    detect.called =>
        /\ (\/ HasStrongIndicator
            \/ \E t \in DetectTokens :
                  t \in DOMAIN TERM_WEIGHTS /\ t \notin CONTEXT_REQUIRED_TERMS)
              => detect.result = TRUE
        /\ (/\ ~HasStrongIndicator
            /\ \A t \in DetectTokens :
                  t \in DOMAIN TERM_WEIGHTS => t \in CONTEXT_REQUIRED_TERMS)
              => detect.result = FALSE

\* the step in which the last COMMIT of target's process_docs succeeds
\* and processed_docs is returned
FinishesProcessing(target) ==
    fetches[target].pc = "commit" /\ fetches'[target].pc = "done"

\* the step in which the catch block of target's batch has sent ROLLBACK
\* and the store has executed it
RollsBack(target) ==
    fetches[target].pc = "rollback" /\ fetches'[target].pc = "done" /\ ~tx'.open

\* C11: every non-empty, non-heading section of a fetched text is stored
\* as its own Document: after process_docs commits, each content unit's
\* text is the content of some stored document and no two stored documents
\* share an identifier (re-indexing a section overwrites its document
\* without creating a duplicate).
C11_EverySectionStored ==
    [][\A target \in FetchTargets :
          FinishesProcessing(target) =>
              LET units == Units(target, fetches[target].text)
              IN /\ \A k \in 1..Len(units) :
                       \E n \in 1..Len(docs') :
                          /\ docs'[n].id = units[k].doc.id
                          /\ docs'[n].content = units[k].doc.content
                 /\ \A m, n \in 1..Len(docs') :
                       m # n => docs'[m].id # docs'[n].id]_vars

\* the units of the batches of target that were committed before the
\* batch in flight
EarlierUnits(target) ==
    SubSeq(Units(target, fetches[target].text), 1, fetches[target].i - 1)

\* the units of the batch in flight of target
BatchUnits(target) ==
    LET units == Units(target, fetches[target].text)
    IN SubSeq(units, fetches[target].i, BatchEnd(units, fetches[target].i))

\* C12: if a write fails inside a batch of process_docs, then after the
\* rollback none of that batch's document or index-entry writes remain in
\* the store, every batch committed earlier in the same run remains
\* committed, and the failure ends process_docs (no further batch is
\* begun and processed_docs is not returned).
C12_FailedBatchRolledBack ==
    [][\A target \in FetchTargets :
          RollsBack(target) =>
              LET earlier == EarlierUnits(target)
                  batch   == BatchUnits(target)
              IN /\ \A k \in 1..Len(batch) :
                       /\ \/ batch[k].doc \notin Range(docs')
                          \/ \E e \in 1..Len(earlier) : earlier[e].doc = batch[k].doc
                       /\ \A row \in IndexRows(batch[k]) :
                             \/ row \notin search_index'
                             \/ \E e \in 1..Len(earlier) : row \in IndexRows(earlier[e])
                 /\ \A e \in 1..Len(earlier) :
                       /\ \/ earlier[e].doc \in Range(docs')
                          \/ \E l \in (e + 1)..Len(earlier) :
                                earlier[l].doc.id = earlier[e].doc.id
                       /\ \A row \in IndexRows(earlier[e]) :
                             \/ row \in search_index'
                             \/ \E l \in (e + 1)..Len(earlier) :
                                   \E other \in IndexRows(earlier[l]) :
                                      other.doc_id = row.doc_id /\ other.term = row.term
                 /\ fetches'[target].result = <<>>]_vars

\* C12 witness: a statement of the second batch of a text has failed after
\* the batch had written a document, the first batch is committed, and the
\* catch block is about to send ROLLBACK
C12_Witness ==
    \E target \in FetchTargets :
        /\ fetches[target].pc = "rollback"
        /\ fetches[target].i > 1
        /\ tx.open
        /\ Len(tx.docs) > 0
        /\ docs # tx.docs

\* the step in which target's fetch_docs ends after a failure: the fetch
\* is rejected, the response is not ok, BEGIN fails, or a statement of a
\* batch has failed and the catch block has run
FetchFails(target) ==
    \/ FetchResponse(target, "network_error")
    \/ FetchResponse(target, "not_ok")
    \/ /\ fetches[target].pc \in {"begin", "rollback"}
       /\ fetches'[target].pc = "done"

\* C13: a fetch failure (network error or non-OK response) or a store
\* failure during indexing is surfaced to the caller of fetch_docs as a
\* failed operation, distinguishable by the caller from a fetch that
\* succeeded but produced zero content units.
C13_FailureSurfaced ==
    [][\A target \in FetchTargets :
          FetchFails(target) =>
              /\ fetches'[target].rejected
              /\ fetches'[target] # Returned(<<>>)]_vars

AllPackagesDone == \A target \in PackageTargets : fetches[target].pc = "done"

SomePackageEmpty == \E target \in PackageTargets : Len(fetches[target].result) = 0

AllRootsDone == \A target \in RootTargets : fetches[target].pc = "done"

\* init_docs has looked at the results of the package fetches
PackagesChecked == AllPackagesDone /\ server.phase # "packages"

\* an empty optional root-variant fetch is skipped without error
EmptyRootSkipped ==
    (AllRootsDone /\ server.phase # "roots") => server.phase \in {"verify_again", "ready"}

\* C14 as stated: if during initialization the fetch of any mandatory
\* package document (svelte, kit, cli) produces zero content units,
\* initialization fails hard and startup is aborted: the server does not
\* go on serving requests; an empty optional root-variant fetch is skipped
\* without error.
C14_EmptyPackageAbortsStartup ==
    /\ (PackagesChecked /\ SomePackageEmpty) =>
           (server.phase = "failed" /\ ~server.serving)
    /\ EmptyRootSkipped

\* C14 amended: if the fetch of any mandatory package document produces
\* zero content units, init_docs fails and the root variants are not
\* fetched, while the server, connected before the initialization began,
\* goes on serving requests; initialization fails for no other reason, and
\* an empty optional root-variant fetch is skipped without error.
C14_EmptyPackageFailsInitDocs ==
    /\ (PackagesChecked /\ SomePackageEmpty) =>
           /\ server.phase = "failed"
           /\ server.serving
           /\ \A target \in RootTargets : fetches[target].pc = "idle"
    /\ server.phase = "failed" => (AllPackagesDone /\ SomePackageEmpty)
    /\ EmptyRootSkipped

\* C14 witness: init_docs has failed on an empty package result and the
\* server is answering a search request
C14_Witness ==
    /\ server.phase = "failed"
    /\ SomePackageEmpty
    /\ request.active

\* the rows the open transaction has written
UncommittedDocs == {docs[n] : n \in {k \in 1..Len(docs) : docs[k] \notin Range(tx.docs)}}

\* C15: during init_docs the per-package fetches run concurrently over the
\* single shared store client; for every interleaving of their batches a
\* COMMIT or ROLLBACK issued for one package's batch never commits or
\* discards writes of another package's in-flight batch, and no batch
\* fails because another batch's transaction is open.
C15_ConcurrentBatchesIsolated ==
    [][\A target \in FetchTargets :
          /\ (/\ fetches[target].pc \in {"commit", "rollback"}
              /\ fetches'[target].pc # fetches[target].pc)
                => \A d \in UncommittedDocs :
                      \E k \in 1..Len(BatchUnits(target)) : BatchUnits(target)[k].doc = d
          /\ (/\ fetches[target].pc = "begin"
              /\ tx.open
              /\ fetches'[target] # fetches[target])
                => fetches'[target].pc = "insert_docs"]_vars

\* C16: a query executing while an indexing batch is in flight observes
\* only state that is committed at the instant of its read: it never
\* returns a document derived from writes of a batch that is subsequently
\* rolled back.
C16_NoReadOfRolledBackWrites ==
    [][(\E target \in FetchTargets : RollsBack(target)) => ~tx.dirtyRead]_vars

\* the server was started with a refresh option
StartedWithRefresh == Len(server.args) = 1

\* C17: when the server is started with --refresh, --refresh=DAILY or
\* --refresh=WEEKLY, the documentation is re-fetched on startup even if
\* documents already exist in the store, and the refresh interval is set
\* to daily (24 h) or weekly (7 days) respectively.
C17_RefreshOnStartup ==
    (StartedWithRefresh /\ server.phase = "ready") =>
        /\ \E target \in FetchTargets : fetches[target].pc # "idle"
        /\ server.UPDATE_INTERVAL =
              IF server.args[1] = <<"-","-","r","e","f","r","e","s","h","=","W","E","E","K","L","Y">>
              THEN 7 * 24 * 60 * 60 * 1000
              ELSE 24 * 60 * 60 * 1000

\* does the entry of the weighted term list occur in the content as a
\* case-insensitive substring
OccursIn(content, entry) == includes(toLowerCase(content), toLowerCase(entry.term))

\* the sum of the weights (hundredths) of the entries of the request's
\* weighted term list that occur in the content
SpecifiedFallbackScore(content) ==
    SumValues({<<k, IF OccursIn(content, ReqSearchTerms[k])
                    THEN ReqSearchTerms[k].weight * 10 ELSE 0>> :
               k \in 1..Len(ReqSearchTerms)})

\* C21: in the fallback search each returned document's relevance_score
\* equals the sum of the weights of the entries of the weighted term list
\* that occur in its content as case-insensitive substrings; every
\* returned document matches at least one entry (score > 0), passes the
\* type/package filters, and the results are ordered by descending score
\* and capped at 10.
C21_FallbackScore ==
    FallbackExecuted =>
        /\ \A i \in 1..Len(response.results) :
              /\ Score(i) = SpecifiedFallbackScore(response.results[i].content)
              /\ Score(i) > 0
              /\ \E k \in 1..Len(ReqSearchTerms) :
                    OccursIn(response.results[i].content, ReqSearchTerms[k])
              /\ TypeFilter(response.results[i], request.doc_type)
              /\ PackageFilter(response.results[i], request.package)
        /\ NonIncreasingScores
        /\ Len(response.results) <= RESULT_LIMIT

\* the result assembler has been applied to a retrieved list
Assembled == invoked.fn = "assemble" /\ invoked.called

\* the list a direct stable descending sort by relevance_score returns
DirectSort(rs) == StableSortDesc(rs, [i \in 1..Len(rs) |-> rs[i].relevance_score])

\* C22 as stated: the result assembler returns exactly the list a direct
\* stable descending sort by relevance_score would return: the same
\* elements, and results with equal scores keep their relative order from
\* the underlying retrieval, regardless of their categories.
C22_AssemblerIsDirectSort ==
    Assembled => invoked.result = DirectSort(invoked.arg)

\* the position in the retrieved list of the first result of r's category
FirstOfCategory(rs, r) ==
    MinOf({i \in 1..Len(rs) : rs[i].category = r.category})

\* C22 amended: the result assembler returns the elements of its input in
\* descending order of relevance_score; results with equal scores are
\* ordered by category, the categories in the order of their first
\* appearance in the retrieved list, and keep their retrieval order within
\* a category.
C22_AssemblerSortsGroupedList ==
    Assembled =>
        LET arg == invoked.arg
            out == invoked.result
        IN /\ Len(out) = Len(arg)
           /\ Range(out) = Range(arg)
           /\ \A i, j \in 1..Len(out) :
                 i < j =>
                    \/ out[i].relevance_score > out[j].relevance_score
                    \/ /\ out[i].relevance_score = out[j].relevance_score
                       /\ \/ FirstOfCategory(arg, out[i]) < FirstOfCategory(arg, out[j])
                          \/ /\ out[i].category = out[j].category
                             /\ out[i].id < out[j].id

\* C22 witness: the assembler has returned a list in which two results of
\* equal score stand in the reverse of their retrieval order
C22_Witness ==
    /\ Assembled
    /\ \E i, j \in 1..Len(invoked.result) :
          /\ i < j
          /\ invoked.result[i].relevance_score = invoked.result[j].relevance_score
          /\ invoked.result[i].id > invoked.result[j].id

\* determine_category has been applied to a content
Categorised == invoked.fn = "determine_category" /\ invoked.called

\* the lower-cased content given to determine_category contains one of
\* the keywords
HasKeyword(keywords) ==
    \E w \in keywords : includes(toLowerCase(invoked.arg), w)

RuneKeywords == {<<"r","u","n","e">>, <<"$","s","t","a","t","e">>, <<"$","e","f","f","e","c","t">>}
ComponentKeywords == {<<"c","o","m","p","o","n","e","n","t">>, <<"l","i","f","e","c","y","c","l","e">>}
RoutingKeywords == {<<"r","o","u","t","e">>, <<"n","a","v","i","g","a","t","i","o","n">>, <<"s","v","e","l","t","e","k","i","t">>}
ErrorKeywords == {<<"e","r","r","o","r">>, <<"w","a","r","n","i","n","g">>, <<"d","e","b","u","g">>}

\* C23: determine_category assigns exactly one outcome by fixed priority
\* over the lower-cased content: runes if it contains rune, $state or
\* $effect; else components if it contains component or lifecycle; else
\* routing if it contains route, navigation or sveltekit; else error if it
\* contains error, warning or debug; else no category.
C23_CategoryByPriority ==
    Categorised =>
        /\ HasKeyword(RuneKeywords) => invoked.result = "runes"
        /\ (~HasKeyword(RuneKeywords) /\ HasKeyword(ComponentKeywords))
              => invoked.result = "components"
        /\ (/\ ~HasKeyword(RuneKeywords \cup ComponentKeywords)
            /\ HasKeyword(RoutingKeywords))
              => invoked.result = "routing"
        /\ (/\ ~HasKeyword(RuneKeywords \cup ComponentKeywords \cup RoutingKeywords)
            /\ HasKeyword(ErrorKeywords))
              => invoked.result = "error"
        /\ ~HasKeyword(RuneKeywords \cup ComponentKeywords
                          \cup RoutingKeywords \cup ErrorKeywords)
              => invoked.result = NULL

\* C23 witness: a content with an error keyword and a rune keyword has
\* been given the category runes
C23_Witness ==
    /\ Categorised
    /\ HasKeyword(ErrorKeywords)
    /\ HasKeyword(RuneKeywords)
    /\ invoked.result = "runes"

\* generate_related_suggestions has been applied to a term list
Suggested == invoked.fn = "generate_related_suggestions" /\ invoked.called

\* the associations of the table key equal to the term
DirectlyRelated(term) ==
    UNION {Range(RELATED_TERMS[k].related) :
           k \in {n \in 1..Len(RELATED_TERMS) : RELATED_TERMS[n].key = term}}

\* the associations of the table keys that contain the term or are
\* contained in it, and differ from it
PartiallyRelated(term) ==
    UNION {Range(RELATED_TERMS[k].related) :
           k \in {n \in 1..Len(RELATED_TERMS) :
                     /\ RELATED_TERMS[n].key # term
                     /\ \/ includes(RELATED_TERMS[n].key, term)
                        \/ includes(term, RELATED_TERMS[n].key)}}

\* the positions of the query terms that offer r as a suggestion
Offering(terms, r) ==
    {t \in 1..Len(terms) :
        /\ Len(terms[t]) > 2
        /\ r \in DirectlyRelated(terms[t]) \cup PartiallyRelated(terms[t])}

\* C24: a suggestion emitted from a direct Related-Term Table lookup of a
\* query term carries relevance equal to its Term Weight Table value (1.0
\* when absent); a suggestion emitted because a table key and a query term
\* are substrings of one another (not identical) carries 0.8 times that
\* value; each suggested term is emitted at most once, with the relevance
\* of its first emission in query-term order.
C24_SuggestionRelevance ==
    Suggested =>
        LET terms == invoked.arg
            out   == invoked.result
        IN /\ \A i, j \in 1..Len(out) : i # j => out[i].term # out[j].term
           /\ \A i \in 1..Len(out) :
                 /\ Offering(terms, out[i].term) # {}
                 /\ LET first == terms[MinOf(Offering(terms, out[i].term))]
                    IN out[i].relevance =
                          IF out[i].term \in DirectlyRelated(first)
                          THEN WeightOr(out[i].term, 10) * 10
                          ELSE WeightOr(out[i].term, 10) * 8

\* C24 witness: a suggestion carries the relevance of a partial match
\* although a later query term offers it by a direct lookup
C24_Witness ==
    /\ Suggested
    /\ \E i \in 1..Len(invoked.result) :
          /\ invoked.result[i].relevance = WeightOr(invoked.result[i].term, 10) * 8
          /\ \E t \in 1..Len(invoked.arg) :
                invoked.result[i].term \in DirectlyRelated(invoked.arg[t])

\* the first pass of process_docs is under way
Scanning == invoked.fn = "process_docs"

\* the section the step has scanned
Scanned == invoked.arg[invoked.result.i]

IsTopLevelHeading(section) == startsWith(section, <<"#"," ">>)

IsSecondLevelHeading(section) == ~IsTopLevelHeading(section) /\ startsWith(section, <<"#","#"," ">>)

\* C25: while process_docs scans any sequence of sections, the current
\* hierarchy path never has more than two elements: a section starting
\* with a top-level heading marker resets it to a single-element path, a
\* section starting with a second-level heading marker keeps the first
\* element and sets or replaces the second, and heading sections are
\* never stored as documents.
C25_HierarchyAtMostTwoLevels ==
    [][Scanning =>
          LET before == invoked.result
              after  == invoked'.result
          IN /\ Len(after.current_hierarchy) <= 2
             /\ IsTopLevelHeading(Scanned) =>
                   /\ after.current_hierarchy = <<SubSeq(Scanned, 3, Len(Scanned))>>
                   /\ after.processed_docs = before.processed_docs
             /\ IsSecondLevelHeading(Scanned) =>
                   /\ Len(after.current_hierarchy) = 2
                   /\ after.current_hierarchy[2] = SubSeq(Scanned, 4, Len(Scanned))
                   /\ Len(before.current_hierarchy) > 0 =>
                         after.current_hierarchy[1] = before.current_hierarchy[1]
                   /\ after.processed_docs = before.processed_docs
             /\ (~IsTopLevelHeading(Scanned) /\ ~IsSecondLevelHeading(Scanned)) =>
                   after.current_hierarchy = before.current_hierarchy
             /\ \A k \in 1..Len(after.processed_docs) :
                   /\ ~IsTopLevelHeading(after.processed_docs[k].content)
                   /\ ~IsSecondLevelHeading(after.processed_docs[k].content)
                   /\ Len(after.processed_docs[k].hierarchy) <= 2]_vars

\* C25 witness: after a top-level heading, a second second-level heading
\* has replaced the title of the first
C25_Witness ==
    /\ Scanning
    /\ invoked.result.i = 4
    /\ IsTopLevelHeading(invoked.arg[1])
    /\ IsSecondLevelHeading(invoked.arg[2])
    /\ IsSecondLevelHeading(invoked.arg[3])
    /\ invoked.arg[2] # invoked.arg[3]
    /\ invoked.result.current_hierarchy =
          <<SubSeq(invoked.arg[1], 3, Len(invoked.arg[1])),
            SubSeq(invoked.arg[3], 4, Len(invoked.arg[3]))>>

\* the lower-cased section contains the keyword
Mentions(section, keyword) == includes(toLowerCase(section), keyword)

\* C26: the document type given to a content unit is the type derived
\* from the most recent top-level heading: the heading is sniffed for api,
\* tutorial, example, error (in that priority), the previous type is kept
\* when none matches, and the type is 'api' before any matching heading;
\* second-level headings and content units never change the current type.
C26_TypeFromTopLevelHeading ==
    [][Scanning =>
          LET before == invoked.result
              after  == invoked'.result
              api      == Mentions(Scanned, <<"a","p","i">>)
              tutorial == Mentions(Scanned, <<"t","u","t","o","r","i","a","l">>)
              example  == Mentions(Scanned, <<"e","x","a","m","p","l","e">>)
              error    == Mentions(Scanned, <<"e","r","r","o","r">>)
          IN /\ before.i = 1 => before.current_type = "api"
             /\ IsTopLevelHeading(Scanned) =>
                   after.current_type =
                      IF api THEN "api"
                      ELSE IF tutorial THEN "tutorial"
                      ELSE IF example THEN "example"
                      ELSE IF error THEN "error"
                      ELSE before.current_type
             /\ ~IsTopLevelHeading(Scanned) => after.current_type = before.current_type
             /\ Len(after.processed_docs) > Len(before.processed_docs) =>
                   after.processed_docs[Len(after.processed_docs)].type = before.current_type]_vars

\* C26 witness: a content unit after a top-level heading without a type
\* keyword has been given the type of the heading before it
C26_Witness ==
    /\ Scanning
    /\ invoked.result.i = 4
    /\ IsTopLevelHeading(invoked.arg[1])
    /\ Mentions(invoked.arg[1], <<"e","r","r","o","r">>)
    /\ IsTopLevelHeading(invoked.arg[2])
    /\ \A keyword \in {<<"a","p","i">>, <<"t","u","t","o","r","i","a","l">>, <<"e","x","a","m","p","l","e">>, <<"e","r","r","o","r">>} : ~Mentions(invoked.arg[2], keyword)
    /\ Len(invoked.result.processed_docs) = 1
    /\ invoked.result.processed_docs[1].type = "error"

\* the index entry is one extracted from the stored content of d
ExtractedFrom(entry, d) ==
    /\ d.id = entry.doc_id
    /\ \E t \in SectionTerms(d.content) :
          t.term = entry.term /\ t.frequency = entry.frequency

\* C27: after a document is re-indexed or replaced with different content,
\* its index entries are exactly those extracted from the stored content:
\* in every committed state each index entry's term occurs in its
\* document's stored content with the stored frequency, and each index
\* entry references an existing document.
C27_IndexMatchesStoredContent ==
    ~tx.open =>
        \A entry \in search_index :
           \E k \in 1..Len(docs) : ExtractedFrom(entry, docs[k])

\* the request was answered with the rows of the weighted term statement
TermSearchAnswered == Answered /\ response.executed = <<"term">>

\* C28: for every query that reaches the term search, including a query
\* that yields no terms and no phrases, each returned document has at
\* least one index entry whose term belongs to the query's de-duplicated
\* term set; a query with an empty term set and no phrases therefore
\* returns no documents.
C28_TermSearchNeedsMatchingEntry ==
    TermSearchAnswered =>
        \A i \in 1..Len(response.results) :
           \E entry \in search_index :
              /\ entry.doc_id = response.results[i].id
              /\ entry.term \in Range(ReqDistinctTerms)

\* init_docs has returned without throwing: runServer goes on to its
\* second verify_db
InitDocsReturned == server.phase = "verify_again"

\* C29: whenever init_docs returns without throwing, the store holds at
\* least one document for each mandatory package (svelte, kit, cli), also
\* when an earlier init_docs run failed after the documents of only some
\* packages had been committed and init_docs is then run again.
C29_InitDocsLeavesEveryPackage ==
    InitDocsReturned =>
        \A p \in 1..Len(PACKAGE_DOCS) :
           \E k \in 1..Len(docs) : docs[k].package = PACKAGE_DOCS[p]

\* the step sends BEGIN TRANSACTION, for a batch of process_docs or for
\* init_db
BeginIssued ==
    \/ \E target \in FetchTargets :
          fetches[target].pc = "begin" /\ fetches'[target] # fetches[target]
    \/ invoked.fn = "init_db" /\ invoked.result.pc = "begin" /\ invoked' # invoked

\* the step sends the ROLLBACK of the catch block of process_docs
RollbackIssuedByProcessDocs ==
    \E target \in FetchTargets :
       fetches[target].pc = "rollback" /\ fetches'[target] # fetches[target]

\* the step sends the ROLLBACK of the catch block of init_db
RollbackIssuedByInitDb ==
    invoked.fn = "init_db" /\ invoked.result.pc = "rollback" /\ invoked' # invoked

\* the step sends a ROLLBACK that the store does not execute although a
\* transaction is open
RollbackFailed ==
    (RollbackIssuedByProcessDocs \/ RollbackIssuedByInitDb) /\ tx.open /\ tx'.open

\* with the step process_docs or init_db returns or throws
Finishes ==
    \/ \E target \in FetchTargets :
          fetches[target].pc \notin {"idle", "fetch", "done"} /\ fetches'[target].pc = "done"
    \/ /\ invoked.fn = "init_db"
       /\ invoked.result.pc \notin {"returned", "thrown"}
       /\ invoked'.result.pc \in {"returned", "thrown"}

\* every BEGIN TRANSACTION is sent with no transaction open, and no
\* transaction is open when the function finishes, unless the store
\* failed to execute the ROLLBACK
TransactionsBracketed ==
    /\ BeginIssued => ~tx.open
    /\ (Finishes /\ ~RollbackFailed) => ~tx'.open

====
